---- MODULE Spec2Model ----
(***************************************************************************)
(* Revenue-leakage detection core (hf_deploy/ml_predictive/revenue_leakage) *)
(* as a state machine: AlertGenerator (merge, priority, alert store),       *)
(* AnomalyDetector and ModelTrainer (training pipeline).                    *)
(*                                                                          *)
(* Python values are modelled as follows.  A dict is a function whose       *)
(* DOMAIN is the set of keys present, so dict.get(k, default) is Get.       *)
(* An Optional value is None (the empty sequence) or Some(x) (a one-element *)
(* sequence).  Strings are TLA+ strings, f-strings are \o concatenations.   *)
(***************************************************************************)
EXTENDS Integers, Sequences, FiniteSets, TLC

VARIABLES
    ml_anomalies,      \* combine_anomalies: the ML list passed in
    rule_anomalies,    \* combine_anomalies: the rule list passed in
    combined,          \* combine_anomalies: the list returned
    prio_arg,          \* _calculate_priority: the issue passed in
    prio_ret,          \* _calculate_priority: the level returned (0 before the return)
    pc,                \* "call" until the function under check has returned, then "done"
    ai_anomalies,      \* the ai_anomalies collection: _id -> alert document
    now,               \* datetime.now()
    response,          \* what the last AlertGenerator / API call returned
    model,             \* AnomalyDetector.model: None or Some(IsolationForest)
    is_trained,        \* AnomalyDetector.is_trained
    normalization_params,  \* AnomalyDetector.normalization_params
    model_file,        \* the file at Config.get_model_path(): None or Some(saved data)
    training_history,  \* ModelTrainer.training_history
    history_file,      \* training_history.json: None or Some(list)
    fits,              \* the number of IsolationForest objects constructed so far
    log,               \* the steps and file writes logged by the last invocation
    ret,               \* what the last detector / trainer call returned
    args,              \* the arguments of the function under check (one-call specifications)
    retval             \* what the function under check returned (<<>> before the return)

vars == <<ml_anomalies, rule_anomalies, combined, prio_arg, prio_ret, pc,
          ai_anomalies, now, response, model, is_trained, normalization_params,
          model_file, training_history, history_file, fits, log, ret, args, retval>>

combineVars == <<ml_anomalies, rule_anomalies, combined>>
prioVars == <<prio_arg, prio_ret>>
alertVars == <<ai_anomalies, now, response>>
trainVars == <<model, is_trained, normalization_params, model_file,
               training_history, history_file, fits, log, ret>>
callVars == <<args, retval>>

-----------------------------------------------------------------------------
(* Python helpers *)

None == <<>>
Some(x) == <<x>>

\* dict.get(k, default)
Get(d, k, default) == IF k \in DOMAIN d THEN d[k] ELSE default

\* d[k] = v on a dict
SetKey(d, k, v) == [x \in (DOMAIN d) \cup {k} |-> IF x = k THEN v ELSE d[x]]

\* The dict with no keys.
EmptyDict == [x \in {} |-> None]

-----------------------------------------------------------------------------
(* config.py *)

HIGH_PRIORITY_AMOUNT == 5000
CRITICAL_PRIORITY_AMOUNT == 10000

PRIORITY_LOW == 1
PRIORITY_MEDIUM == 2
PRIORITY_HIGH == 3
PRIORITY_CRITICAL == 4

ALERT_STATUS ==
    [DETECTED |-> "detected", UNDER_REVIEW |-> "under-review",
     RESOLVED |-> "resolved", FALSE_POSITIVE |-> "false-positive"]

\* list(Config.ALERT_STATUS.values())
valid_statuses == {ALERT_STATUS[k] : k \in DOMAIN ALERT_STATUS}

-----------------------------------------------------------------------------
(* AlertGenerator._calculate_priority *)

\* The thresholds compared with > where the code has >=.
calculate_priority_strict(anomaly) ==
    LET leakage == Get(anomaly, "leakage_amount", 0)
        severity == Get(anomaly, "severity", "medium")
    IN  IF leakage > CRITICAL_PRIORITY_AMOUNT THEN PRIORITY_CRITICAL
        ELSE IF leakage > HIGH_PRIORITY_AMOUNT THEN PRIORITY_HIGH
        ELSE IF severity = "high" THEN PRIORITY_HIGH
        ELSE IF severity = "medium" THEN PRIORITY_MEDIUM
        ELSE PRIORITY_LOW

calculate_priority(anomaly) ==
    LET leakage == Get(anomaly, "leakage_amount", 0)
        severity == Get(anomaly, "severity", "medium")
    IN  IF leakage >= CRITICAL_PRIORITY_AMOUNT THEN PRIORITY_CRITICAL
        ELSE IF leakage >= HIGH_PRIORITY_AMOUNT THEN PRIORITY_HIGH
        ELSE IF severity = "high" THEN PRIORITY_HIGH
        ELSE IF severity = "medium" THEN PRIORITY_MEDIUM
        ELSE PRIORITY_LOW

-----------------------------------------------------------------------------
(* AlertGenerator.combine_anomalies *)

\* f"{anomaly.get(k)}": a missing key formats as the text None.
FmtGet(anomaly, k) == Get(anomaly, k, "None")

\* A slip in which the key of an ML record is its visit alone.
ml_key_visit_only(anomaly) == FmtGet(anomaly, "visit_id")

\* key = f"{anomaly.get('visit_id')}:{anomaly.get('type', 'ml')}"
ml_key(anomaly) == FmtGet(anomaly, "visit_id") \o ":" \o Get(anomaly, "type", "ml")

\* key = f"{anomaly.get('visit_id')}:{anomaly.get('type')}"
rule_key(anomaly) == FmtGet(anomaly, "visit_id") \o ":" \o FmtGet(anomaly, "type")

\* One pass of "for anomaly in ...: if key not in seen: ..." over the ML list,
\* acc = [combined, seen].
RECURSIVE ml_loop(_, _)
ml_loop(anomalies, acc) ==
    IF anomalies = <<>> THEN acc
    ELSE LET anomaly == Head(anomalies)
             key == ml_key(anomaly)
         IN  IF key \notin acc.seen
             THEN ml_loop(Tail(anomalies),
                          [combined |-> Append(acc.combined, SetKey(anomaly, "source", "ml")),
                           seen |-> acc.seen \cup {key}])
             ELSE ml_loop(Tail(anomalies), acc)

\* The same pass over the rule list.
RECURSIVE rule_loop(_, _)
rule_loop(anomalies, acc) ==
    IF anomalies = <<>> THEN acc
    ELSE LET anomaly == Head(anomalies)
             key == rule_key(anomaly)
         IN  IF key \notin acc.seen
             THEN rule_loop(Tail(anomalies),
                            [combined |-> Append(acc.combined, SetKey(anomaly, "source", "rules")),
                             seen |-> acc.seen \cup {key}])
             ELSE rule_loop(Tail(anomalies), acc)

sort_key_leakage_only(x) == <<0, 0 - Get(x, "leakage_amount", 0)>>

\* key=lambda x: (-self._calculate_priority(x), -x.get('leakage_amount', 0))
sort_key(x) == <<0 - calculate_priority(x), 0 - Get(x, "leakage_amount", 0)>>

\* Python's order on two-element tuples.
TupleLess(k1, k2) == k1[1] < k2[1] \/ (k1[1] = k2[1] /\ k1[2] < k2[2])

\* x put into an already sorted list before the first element with a larger
\* key: list.sort is stable.
RECURSIVE InsertSorted(_, _)
InsertSorted(sorted, x) ==
    IF sorted = <<>> THEN <<x>>
    ELSE IF TupleLess(sort_key(x), sort_key(Head(sorted)))
         THEN <<x>> \o sorted
         ELSE <<Head(sorted)>> \o InsertSorted(Tail(sorted), x)

\* combined.sort(key=...)
RECURSIVE SortCombined(_, _)
SortCombined(list, sorted) ==
    IF list = <<>> THEN sorted
    ELSE SortCombined(Tail(list), InsertSorted(sorted, Head(list)))

\* A slip in which rule issues are appended without the "key not in seen" test.
RECURSIVE TagAll(_, _)
TagAll(anomalies, source) ==
    IF anomalies = <<>> THEN <<>>
    ELSE <<SetKey(Head(anomalies), "source", source)>> \o TagAll(Tail(anomalies), source)

combine_anomalies_rules_unchecked(ml, rules) ==
    SortCombined(ml_loop(ml, [combined |-> <<>>, seen |-> {}]).combined
                   \o TagAll(rules, "rules"), <<>>)

combine_anomalies(ml, rules) ==
    LET after_ml == ml_loop(ml, [combined |-> <<>>, seen |-> {}])
        after_rules == rule_loop(rules, after_ml)
    IN  SortCombined(after_rules.combined, <<>>)

-----------------------------------------------------------------------------
(* Inputs *)

\* Total number of issues over the two lists handed to combine_anomalies.
MaxIssues == 3

VisitIds == {"v1", "v2"}

\* Two of Config.ANOMALY_TYPES: the type the ML path stamps on its records and
\* one only the rule engine produces.
IssueTypes == {"unusual-pattern", "price-mismatch"}

\* What an issue carries besides its key.  ML records and the duplicate-billing
\* and delayed-billing rule issues carry no leakage_amount; ML records carry no
\* severity either.
IssueProfiles ==
    { EmptyDict,
      [severity |-> "high"],
      [leakage_amount |-> 500, severity |-> "low"],
      [leakage_amount |-> HIGH_PRIORITY_AMOUNT, severity |-> "medium"],
      [leakage_amount |-> CRITICAL_PRIORITY_AMOUNT, severity |-> "low"] }

Issues ==
    { [visit_id |-> v, type |-> t] @@ p : v \in VisitIds, t \in IssueTypes, p \in IssueProfiles }

IssueLists(n) == UNION { [1..k -> Issues] : k \in 0..n }

\* Amounts around the two thresholds, and severities including one that is not
\* low, medium or high.
PriorityAmounts ==
    { 0, 1, 100, HIGH_PRIORITY_AMOUNT - 1, HIGH_PRIORITY_AMOUNT, HIGH_PRIORITY_AMOUNT + 1,
      HIGH_PRIORITY_AMOUNT + 2500,
      CRITICAL_PRIORITY_AMOUNT - 1, CRITICAL_PRIORITY_AMOUNT, CRITICAL_PRIORITY_AMOUNT + 1,
      2 * CRITICAL_PRIORITY_AMOUNT }

PrioritySeverities == {"low", "medium", "high", "critical"}

PriorityIssues ==
    { [visit_id |-> "v1", type |-> "price-mismatch"] @@ l @@ s :
        l \in {EmptyDict} \cup { [leakage_amount |-> a] : a \in PriorityAmounts },
        s \in {EmptyDict} \cup { [severity |-> x] : x \in PrioritySeverities } }

-----------------------------------------------------------------------------
(* combine_anomalies and _calculate_priority are functions of their         *)
(* arguments: the initial states are the calls (the arguments drawn from    *)
(* the input sets), the one step of each is the call returning.             *)

\* The alert store as the merge and the priority leave it: untouched.
IdleAlerts ==
    /\ ai_anomalies = EmptyDict
    /\ now = 0
    /\ response = [op |-> "none"]

\* The detector and the trainer as the other operations leave them: no model.
IdleTrain ==
    /\ model = None
    /\ is_trained = FALSE
    /\ normalization_params = EmptyDict
    /\ model_file = None
    /\ training_history = <<>>
    /\ history_file = None
    /\ fits = 0
    /\ log = <<>>
    /\ ret = [op |-> "none"]

\* No function is under check.
IdleCall ==
    /\ args = <<>>
    /\ retval = <<>>

IdleCombine ==
    /\ ml_anomalies = <<>>
    /\ rule_anomalies = <<>>
    /\ combined = <<>>

IdlePriority ==
    /\ prio_arg = EmptyDict
    /\ prio_ret = 0

InitCombine ==
    /\ pc = "call"
    /\ \E k \in 0..MaxIssues :
         /\ ml_anomalies \in [1..k -> Issues]
         /\ rule_anomalies \in IssueLists(MaxIssues - k)
    /\ combined = <<>>
    /\ IdlePriority
    /\ IdleAlerts
    /\ IdleTrain
    /\ IdleCall

ReturnCombine ==
    /\ pc = "call"
    /\ pc' = "done"
    /\ combined' = combine_anomalies(ml_anomalies, rule_anomalies)
    /\ UNCHANGED <<ml_anomalies, rule_anomalies, prioVars, alertVars, trainVars, callVars>>

SpecCombine == InitCombine /\ [][ReturnCombine]_vars

InitPriority ==
    /\ pc = "call"
    /\ prio_arg \in PriorityIssues
    /\ prio_ret = 0
    /\ IdleCombine
    /\ IdleAlerts
    /\ IdleTrain
    /\ IdleCall

ReturnPriority ==
    /\ pc = "call"
    /\ pc' = "done"
    /\ prio_ret' = calculate_priority(prio_arg)
    /\ UNCHANGED <<prio_arg, combineVars, alertVars, trainVars, callVars>>

SpecPriority == InitPriority /\ [][ReturnPriority]_vars

-----------------------------------------------------------------------------
(* The alert store: AlertGenerator.create_alert, create_alerts_batch,       *)
(* update_alert_status, and the API's update_anomaly in front of it         *)

\* Alerts the store may hold, calls in one batch, and ticks of the clock.
MaxAlerts == 2
MaxBatch == 2
MaxTime == 1

\* str(result.inserted_id) of the n-th insert.
AlertId(n) == "a" \o ToString(n)

\* The strings bson.ObjectId() accepts; every other string makes it raise.
ObjectIdStrings == {"v1", "v2", "p1", "u1"} \cup { AlertId(n) : n \in 1..(MaxAlerts + 1) }

\* anomaly_data.get(k): None for a missing key.
GetOpt(d, k) == IF k \in DOMAIN d THEN Some(d[k]) ELSE None

\* AlertGenerator._to_object_id
to_object_id(id_str) ==
    IF id_str = None THEN None
    ELSE IF id_str[1] = "" THEN None
    ELSE IF id_str[1] \in ObjectIdStrings THEN id_str
    ELSE None

\* The alert document create_alert prepares at time t.
alert_document(anomaly_data, t) ==
    [anomalyType |-> Get(anomaly_data, "type", "unusual-pattern"),
     detectionDate |-> t,
     patient |-> to_object_id(GetOpt(anomaly_data, "patient_id")),
     visit |-> to_object_id(GetOpt(anomaly_data, "visit_id")),
     description |-> Get(anomaly_data, "description", ""),
     details |-> [service |-> Get(anomaly_data, "service", ""),
                  expectedRevenue |-> Get(anomaly_data, "expected_revenue", 0),
                  actualRevenue |-> Get(anomaly_data, "actual_revenue", 0),
                  leakageAmount |-> Get(anomaly_data, "leakage_amount", 0)],
     status |-> ALERT_STATUS.DETECTED,
     reviewedBy |-> None,
     reviewedAt |-> None,
     resolutionNotes |-> None,
     anomalyScore |-> Get(anomaly_data, "anomaly_score", 0),
     priority |-> calculate_priority(anomaly_data),
     source |-> Get(anomaly_data, "source", "ml"),
     metadata |-> [bill_id |-> GetOpt(anomaly_data, "bill_id"),
                   test_id |-> GetOpt(anomaly_data, "test_id"),
                   prescription_id |-> GetOpt(anomaly_data, "prescription_id"),
                   severity |-> Get(anomaly_data, "severity", "medium")],
     createdAt |-> t]

\* A slip in which the issue's own status, when it carries one, is stored.
create_alert_status_from_issue(store, anomaly_data, t, db_ok) ==
    IF ~db_ok THEN [store |-> store, alert_id |-> None]
    ELSE LET id == AlertId(Cardinality(DOMAIN store) + 1)
             doc == alert_document(anomaly_data, t)
         IN  [store |-> (id :> [doc EXCEPT !.status = Get(anomaly_data, "status", @)]) @@ store,
              alert_id |-> Some(id)]

\* AlertGenerator.create_alert on the collection `store`; db_ok is whether
\* insert_one succeeds (when it raises, the except branch returns None).
create_alert(store, anomaly_data, t, db_ok) ==
    IF ~db_ok THEN [store |-> store, alert_id |-> None]
    ELSE LET id == AlertId(Cardinality(DOMAIN store) + 1)
         IN  [store |-> (id :> alert_document(anomaly_data, t)) @@ store,
              alert_id |-> Some(id)]

\* The loop of create_alerts_batch from the i-th anomaly on,
\* acc = [store, created_ids, failed_count].
RECURSIVE batch_loop(_, _, _, _, _)
batch_loop(anomalies, oks, t, i, acc) ==
    IF i > Len(anomalies) THEN acc
    ELSE LET r == create_alert(acc.store, anomalies[i], t, oks[i])
         IN  IF r.alert_id # None
             THEN batch_loop(anomalies, oks, t, i + 1,
                             [store |-> r.store,
                              created_ids |-> Append(acc.created_ids, r.alert_id[1]),
                              failed_count |-> acc.failed_count])
             ELSE batch_loop(anomalies, oks, t, i + 1,
                             [store |-> r.store,
                              created_ids |-> acc.created_ids,
                              failed_count |-> acc.failed_count + 1])

\* A slip in which the loop gives up at the first failed create_alert.
RECURSIVE batch_loop_abort(_, _, _, _, _)
batch_loop_abort(anomalies, oks, t, i, acc) ==
    IF i > Len(anomalies) THEN acc
    ELSE LET r == create_alert(acc.store, anomalies[i], t, oks[i])
         IN  IF r.alert_id # None
             THEN batch_loop_abort(anomalies, oks, t, i + 1,
                                   [store |-> r.store,
                                    created_ids |-> Append(acc.created_ids, r.alert_id[1]),
                                    failed_count |-> acc.failed_count])
             ELSE [store |-> r.store,
                   created_ids |-> acc.created_ids,
                   failed_count |-> acc.failed_count + 1]

create_alerts_batch_abort(store, anomalies, t, oks) ==
    LET acc == batch_loop_abort(anomalies, oks, t, 1,
                                [store |-> store, created_ids |-> <<>>, failed_count |-> 0])
    IN  [store |-> acc.store,
         summary |-> [success |-> TRUE, total |-> Len(anomalies),
                      created |-> Len(acc.created_ids), failed |-> acc.failed_count,
                      alerts |-> acc.created_ids]]

\* AlertGenerator.create_alerts_batch; oks[i] is whether the i-th insert succeeds.
create_alerts_batch(store, anomalies, t, oks) ==
    IF anomalies = <<>>
    THEN [store |-> store,
          summary |-> [success |-> TRUE, total |-> 0, created |-> 0, failed |-> 0,
                       alerts |-> <<>>]]
    ELSE LET acc == batch_loop(anomalies, oks, t, 1,
                               [store |-> store, created_ids |-> <<>>, failed_count |-> 0])
         IN  [store |-> acc.store,
              summary |-> [success |-> TRUE, total |-> Len(anomalies),
                           created |-> Len(acc.created_ids), failed |-> acc.failed_count,
                           alerts |-> acc.created_ids]]

\* A slip in which reviewedBy and resolutionNotes are written on every call.
set_fields_always(doc, status, reviewed_by, resolution_notes, t) ==
    [doc EXCEPT !.status = status, !.reviewedAt = Some(t),
                !.reviewedBy = to_object_id(reviewed_by),
                !.resolutionNotes = resolution_notes]

\* The document after update_one's $set.
set_fields(doc, status, reviewed_by, resolution_notes, t) ==
    LET d1 == [doc EXCEPT !.status = status, !.reviewedAt = Some(t)]
        d2 == IF reviewed_by # None /\ reviewed_by # Some("")
              THEN [d1 EXCEPT !.reviewedBy = to_object_id(reviewed_by)]
              ELSE d1
    IN  IF resolution_notes # None /\ resolution_notes # Some("")
        THEN [d2 EXCEPT !.resolutionNotes = resolution_notes]
        ELSE d2

\* A slip in which update_one is called with upsert: an id that matches no
\* alert gets a document of the fields set.
update_alert_status_upserts(store, alert_id, status, reviewed_by, resolution_notes, t, db_ok) ==
    IF alert_id \notin ObjectIdStrings \/ ~db_ok THEN [store |-> store, ret |-> FALSE]
    ELSE IF alert_id \notin DOMAIN store
    THEN [store |-> (alert_id :> [status |-> status, reviewedAt |-> Some(t)]) @@ store,
          ret |-> FALSE]
    ELSE LET doc == set_fields(store[alert_id], status, reviewed_by, resolution_notes, t)
         IN  [store |-> [store EXCEPT ![alert_id] = doc],
              ret |-> (doc # store[alert_id])]

\* AlertGenerator.update_alert_status; ObjectId(alert_id) raises on a malformed
\* id, update_one raises when db_ok is false, both end in "return False";
\* modified_count is 1 when the matched document changed.
update_alert_status(store, alert_id, status, reviewed_by, resolution_notes, t, db_ok) ==
    IF alert_id \notin ObjectIdStrings \/ ~db_ok THEN [store |-> store, ret |-> FALSE]
    ELSE IF alert_id \notin DOMAIN store THEN [store |-> store, ret |-> FALSE]
    ELSE LET doc == set_fields(store[alert_id], status, reviewed_by, resolution_notes, t)
         IN  [store |-> [store EXCEPT ![alert_id] = doc],
              ret |-> (doc # store[alert_id])]

\* A slip in which the API hands any given status on.
status_accepted_any(status) == status # None /\ status # Some("")

\* update_anomaly's validation of data.get('status').
status_accepted(status) ==
    /\ status # None
    /\ status # Some("")
    /\ status[1] \in valid_statuses

\* app.update_anomaly: PUT /ml/revenue/anomalies/<anomaly_id>.  The answer is
\* 400 for a status that is not accepted, 200 with the id and the status
\* echoed when update_alert_status returned True, and 500 otherwise.
update_anomaly(store, anomaly_id, status, reviewed_by, resolution_notes, t, db_ok) ==
    IF ~status_accepted(status)
    THEN [store |-> store, answer |-> [code |-> 400]]
    ELSE LET r == update_alert_status(store, anomaly_id, status[1], reviewed_by,
                                      resolution_notes, t, db_ok)
         IN  [store |-> r.store,
              answer |-> IF r.ret
                         THEN [code |-> 200, id |-> anomaly_id, status |-> status[1]]
                         ELSE [code |-> 500]]

-----------------------------------------------------------------------------
(* Inputs of the alert operations *)

\* An ML record as detect_anomalies hands it on, and a rule issue that also
\* carries review fields of its own.
AlertIssues ==
    { [visit_id |-> "v1", patient_id |-> "p1", type |-> "unusual-pattern",
       anomaly_score |-> -1, source |-> "ml"],
      [visit_id |-> "v1", patient_id |-> "p1", type |-> "price-mismatch",
       leakage_amount |-> CRITICAL_PRIORITY_AMOUNT, severity |-> "medium", source |-> "rules",
       status |-> "resolved", reviewedBy |-> "u1", reviewedAt |-> 0,
       resolutionNotes |-> "settled"] }

\* Ids a request may name: of stored alerts, of no alert, and one that is no ObjectId.
AlertIdInputs == { AlertId(n) : n \in 1..(MaxAlerts + 1) } \cup {"not-an-id"}

StatusInputs == {None} \cup { Some(st) : st \in valid_statuses \cup {"archived"} }

ReviewerInputs == {None, Some("u1"), Some("not-an-id")}

NotesInputs == {None, Some("checked")}

-----------------------------------------------------------------------------
(* Specification of the alert store *)

InitAlerts ==
    /\ IdleAlerts
    /\ pc = "done"
    /\ IdleCombine
    /\ IdlePriority
    /\ IdleTrain
    /\ IdleCall

\* One call of create_alert.
CreateAlertCall(anomaly_data, db_ok) ==
    LET r == create_alert(ai_anomalies, anomaly_data, now, db_ok)
    IN  /\ ai_anomalies' = r.store
        /\ response' = [op |-> "create_alert", alert_id |-> r.alert_id]
        /\ UNCHANGED now

CreateAlert ==
    /\ Cardinality(DOMAIN ai_anomalies) < MaxAlerts
    /\ \E anomaly_data \in AlertIssues, db_ok \in BOOLEAN :
         CreateAlertCall(anomaly_data, db_ok)

\* One call of create_alerts_batch.
CreateAlertsBatchCall(anomalies, oks) ==
    LET r == create_alerts_batch(ai_anomalies, anomalies, now, oks)
    IN  /\ ai_anomalies' = r.store
        /\ response' = [op |-> "create_alerts_batch", summary |-> r.summary]
        /\ UNCHANGED now

CreateAlertsBatch ==
    \E k \in 0..MaxBatch :
      /\ Cardinality(DOMAIN ai_anomalies) + k <= MaxAlerts
      /\ \E anomalies \in [1..k -> AlertIssues], oks \in [1..k -> BOOLEAN] :
           CreateAlertsBatchCall(anomalies, oks)

\* One request PUT /ml/revenue/anomalies/<anomaly_id>.
UpdateAnomalyCall(anomaly_id, status, reviewed_by, resolution_notes, db_ok) ==
    LET r == update_anomaly(ai_anomalies, anomaly_id, status, reviewed_by,
                            resolution_notes, now, db_ok)
    IN  /\ ai_anomalies' = r.store
        /\ response' = [op |-> "update_anomaly"] @@ r.answer
        /\ UNCHANGED now

UpdateAnomaly ==
    \E anomaly_id \in AlertIdInputs, status \in StatusInputs,
       reviewed_by \in ReviewerInputs, resolution_notes \in NotesInputs,
       db_ok \in BOOLEAN :
      UpdateAnomalyCall(anomaly_id, status, reviewed_by, resolution_notes, db_ok)

\* The clock moves on between calls.
Tick ==
    /\ now < MaxTime
    /\ now' = now + 1
    /\ UNCHANGED <<ai_anomalies, response>>

NextAlerts ==
    \/ CreateAlert /\ UNCHANGED <<combineVars, prioVars, trainVars, callVars, pc>>
    \/ CreateAlertsBatch /\ UNCHANGED <<combineVars, prioVars, trainVars, callVars, pc>>
    \/ UpdateAnomaly /\ UNCHANGED <<combineVars, prioVars, trainVars, callVars, pc>>
    \/ Tick /\ UNCHANGED <<combineVars, prioVars, trainVars, callVars, pc>>

SpecAlerts == InitAlerts /\ [][NextAlerts]_vars

\* The store under the writes of detection runs alone (no review requests).
NextAlertCreation ==
    \/ CreateAlert /\ UNCHANGED <<combineVars, prioVars, trainVars, callVars, pc>>
    \/ CreateAlertsBatch /\ UNCHANGED <<combineVars, prioVars, trainVars, callVars, pc>>
    \/ Tick /\ UNCHANGED <<combineVars, prioVars, trainVars, callVars, pc>>

SpecAlertCreation == InitAlerts /\ [][NextAlertCreation]_vars

-----------------------------------------------------------------------------
(* The detector and the training pipeline: AnomalyDetector and ModelTrainer. *)
(* A feature matrix for training is modelled by its number of rows, the      *)
(* normalization parameters (mean, std) by the matrix they were computed     *)
(* from, an IsolationForest object by the number of its construction and     *)
(* whether fit has completed on it.  The functions below take and return     *)
(* the state as a record s of the detector's fields (model, is_trained,      *)
(* normalization_params), the files (model_file, history_file), the          *)
(* trainer's training_history, the log of the invocation and its return.     *)

MIN_SAMPLES_FOR_TRAINING == 100
N_FEATURES == 10
HISTORY_KEPT == 10

MaxFits == 2
MaxRows == 2

\* seq[-n:]
LastN(seq, n) == IF Len(seq) <= n THEN seq ELSE SubSeq(seq, Len(seq) - n + 1, Len(seq))

\* AnomalyDetector._load_model on a detector just constructed.
load_model(s, load_ok) ==
    IF s.model_file # None /\ load_ok
    THEN [s EXCEPT !.model = s.model_file[1].model,
                   !.normalization_params = s.model_file[1].normalization_params,
                   !.is_trained = TRUE]
    ELSE s

\* AnomalyDetector.save_model: the new state and the value returned.
save_model(s, save_ok) ==
    IF s.model = None THEN [s |-> s, saved |-> FALSE]
    ELSE IF save_ok
         THEN [s |-> [s EXCEPT !.model_file =
                         Some([model |-> s.model,
                               normalization_params |-> s.normalization_params]),
                       !.log = Append(s.log, "SavedModel")],
               saved |-> TRUE]
         ELSE [s |-> s, saved |-> FALSE]

\* A slip in which AnomalyDetector.train does not look at the size of the
\* matrix: IsolationForest.fit raises on a matrix with no rows.
detector_train_no_empty_check(s, rows, params, fit, save_ok) ==
    LET s1 == [s EXCEPT !.model = Some([id |-> s.fits + 1, fitted |-> FALSE]),
                        !.fits = s.fits + 1]
        s2 == [s1 EXCEPT !.model = Some([id |-> s.fits + 1, fitted |-> TRUE]),
                         !.normalization_params =
                            IF params # EmptyDict
                            THEN params
                            ELSE s.normalization_params,
                         !.is_trained = TRUE]
    IN  IF rows = 0 \/ fit = "fit raises"
        THEN [s |-> s1, metrics |-> [success |-> FALSE, error |-> "fit"]]
        ELSE IF fit = "score raises"
        THEN [s |-> s2, metrics |-> [success |-> FALSE, error |-> "score_samples"]]
        ELSE [s |-> save_model(s2, save_ok).s,
              metrics |-> [success |-> TRUE, n_samples |-> rows]]

\* A slip in which AnomalyDetector.train saves the model before fitting it.
detector_train_saves_first(s, rows, params, fit, save_ok) ==
    IF rows = 0
    THEN [s |-> s, metrics |-> [success |-> FALSE, error |-> "Empty training data"]]
    ELSE LET s0 == [s EXCEPT !.model = Some([id |-> s.fits + 1, fitted |-> FALSE]),
                             !.fits = s.fits + 1]
             s1 == save_model(s0, save_ok).s
             s2 == [s1 EXCEPT !.model = Some([id |-> s.fits + 1, fitted |-> TRUE]),
                              !.normalization_params =
                                 IF params # EmptyDict
                                 THEN params
                                 ELSE s.normalization_params,
                              !.is_trained = TRUE]
         IN  IF fit = "fit raises"
             THEN [s |-> s1, metrics |-> [success |-> FALSE, error |-> "fit"]]
             ELSE IF fit = "score raises"
             THEN [s |-> s2, metrics |-> [success |-> FALSE, error |-> "score_samples"]]
             ELSE [s |-> s2, metrics |-> [success |-> TRUE, n_samples |-> rows]]

\* A slip in which the except clause of AnomalyDetector.train marks the
\* detector as untrained.
detector_train_resets(s, rows, params, fit, save_ok) ==
    IF rows = 0
    THEN [s |-> s, metrics |-> [success |-> FALSE, error |-> "Empty training data"]]
    ELSE LET s1 == [s EXCEPT !.model = Some([id |-> s.fits + 1, fitted |-> FALSE]),
                             !.fits = s.fits + 1]
             s2 == [s1 EXCEPT !.model = Some([id |-> s.fits + 1, fitted |-> TRUE]),
                              !.normalization_params =
                                 IF params # EmptyDict
                                 THEN params
                                 ELSE s.normalization_params,
                              !.is_trained = TRUE]
         IN  IF fit = "fit raises"
             THEN [s |-> [s1 EXCEPT !.is_trained = FALSE],
                   metrics |-> [success |-> FALSE, error |-> "fit"]]
             ELSE IF fit = "score raises"
             THEN [s |-> [s2 EXCEPT !.is_trained = FALSE],
                   metrics |-> [success |-> FALSE, error |-> "score_samples"]]
             ELSE [s |-> save_model(s2, save_ok).s,
                   metrics |-> [success |-> TRUE, n_samples |-> rows]]

\* AnomalyDetector.train on a matrix of `rows` rows.  fit is "ok", or
\* "fit raises" (IsolationForest.fit raises), or "score raises" (score_samples
\* or predict raises while the metrics are computed).
detector_train(s, rows, params, fit, save_ok) ==
    IF rows = 0
    THEN [s |-> s, metrics |-> [success |-> FALSE, error |-> "Empty training data"]]
    ELSE LET s1 == [s EXCEPT !.model = Some([id |-> s.fits + 1, fitted |-> FALSE]),
                             !.fits = s.fits + 1]
             s2 == [s1 EXCEPT !.model = Some([id |-> s.fits + 1, fitted |-> TRUE]),
                              !.normalization_params =
                                 IF params # EmptyDict
                                 THEN params
                                 ELSE s.normalization_params,
                              !.is_trained = TRUE]
         IN  IF fit = "fit raises"
             THEN [s |-> s1, metrics |-> [success |-> FALSE, error |-> "fit"]]
             ELSE IF fit = "score raises"
             THEN [s |-> s2, metrics |-> [success |-> FALSE, error |-> "score_samples"]]
             ELSE [s |-> save_model(s2, save_ok).s,
                   metrics |-> [success |-> TRUE, n_samples |-> rows]]

\* A slip in which detect hands every matrix to the model without looking
\* at the detector or at the matrix.
detect_unguarded(s, rows, predict_ok) == IF ~predict_ok THEN 0 ELSE rows

\* AnomalyDetector.detect: the number of predictions (and scores) returned
\* for a matrix of `rows` rows; predict raises on a model that was never
\* fitted, and when predict_ok is false.
detect(s, rows, predict_ok) ==
    IF ~s.is_trained \/ s.model = None THEN 0
    ELSE IF rows = 0 THEN 0
    ELSE IF ~s.model[1].fitted \/ ~predict_ok THEN 0
    ELSE rows

\* AnomalyDetector.get_model_info (n_estimators, contamination and model_path
\* are configuration values).
get_model_info(s) ==
    IF ~s.is_trained \/ s.model = None
    THEN [is_trained |-> FALSE, message |-> "No model trained"]
    ELSE [is_trained |-> TRUE, model_type |-> "IsolationForest",
          has_normalization_params |-> s.normalization_params # EmptyDict]

\* DataProcessor.normalize_features: the parameters returned.
normalize_features(rows) == IF rows = 0 THEN EmptyDict ELSE [mean_std_of |-> rows]

\* A slip in which _validate_data fails on any issue it has found.
validate_data_any_issue(features) ==
    LET issues == (IF features.rows < MIN_SAMPLES_FOR_TRAINING THEN <<"samples">> ELSE <<>>)
                  \o (IF features.nan_count > 0
                         /\ features.nan_count * 100 > 10 * (features.rows * N_FEATURES)
                      THEN <<"nan">> ELSE <<>>)
                  \o (IF features.inf_count > 0 THEN <<"inf">> ELSE <<>>)
                  \o (IF features.zero_variance_features > 0
                      THEN <<"zero variance">> ELSE <<>>)
    IN  IF issues # <<>>
        THEN [valid |-> FALSE, error |-> "Insufficient training data", issues |-> issues]
        ELSE [valid |-> TRUE, issues |-> issues,
              stats |-> [n_samples |-> features.rows, n_features |-> N_FEATURES,
                         nan_count |-> features.nan_count]]

\* A slip in which _validate_data reports its issues and never fails.
validate_data_never_fails(features) ==
    [valid |-> TRUE,
     issues |-> IF features.rows < MIN_SAMPLES_FOR_TRAINING THEN <<"samples">> ELSE <<>>,
     stats |-> [n_samples |-> features.rows, n_features |-> N_FEATURES,
                nan_count |-> features.nan_count]]

\* ModelTrainer._validate_data.  The matrix is given by its number of rows and
\* what the checks count in it: NaN entries, infinite entries, columns of
\* zero variance.  The issues are the messages in the order they are appended.
validate_data(features) ==
    LET issues == (IF features.rows < MIN_SAMPLES_FOR_TRAINING THEN <<"samples">> ELSE <<>>)
                  \o (IF features.nan_count > 0
                         /\ features.nan_count * 100 > 10 * (features.rows * N_FEATURES)
                      THEN <<"nan">> ELSE <<>>)
                  \o (IF features.inf_count > 0 THEN <<"inf">> ELSE <<>>)
                  \o (IF features.zero_variance_features > 0
                      THEN <<"zero variance">> ELSE <<>>)
    IN  IF issues # <<>> /\ features.rows < MIN_SAMPLES_FOR_TRAINING
        THEN [valid |-> FALSE, error |-> "Insufficient training data", issues |-> issues]
        ELSE [valid |-> TRUE, issues |-> issues,
              stats |-> [n_samples |-> features.rows, n_features |-> N_FEATURES,
                         nan_count |-> features.nan_count]]

\* MODEL_PARAMS['contamination'], in percent.
CONTAMINATION_PERCENT == 10

\* A slip in which a model whose anomaly rate is off the contamination is
\* reported as a failure of the validation.
validate_model_rate_checked(s, rows, predict_ok, n_anomalies) ==
    IF detect(s, rows, predict_ok) = 0
         \/ 100 * n_anomalies # CONTAMINATION_PERCENT * rows
    THEN [valid |-> FALSE, error |-> "Model prediction failed"]
    ELSE [valid |-> TRUE,
          n_anomalies |-> n_anomalies,
          n_normal |-> rows - n_anomalies,
          anomaly_rate |-> [num |-> n_anomalies, den |-> rows],
          expected_rate |-> [num |-> CONTAMINATION_PERCENT, den |-> 100],
          rate_deviation |-> [num |-> 0, den |-> 1]]

\* ModelTrainer._validate_model; n_anomalies of the rows are predicted -1.
\* The rates are the fractions [num, den]; rate_deviation is
\* |anomaly_rate - contamination| / contamination.
validate_model(s, rows, predict_ok, n_anomalies) ==
    IF detect(s, rows, predict_ok) = 0
    THEN [valid |-> FALSE, error |-> "Model prediction failed"]
    ELSE [valid |-> TRUE,
          n_anomalies |-> n_anomalies,
          n_normal |-> rows - n_anomalies,
          anomaly_rate |-> [num |-> n_anomalies, den |-> rows],
          expected_rate |-> [num |-> CONTAMINATION_PERCENT, den |-> 100],
          rate_deviation |->
              [num |-> IF 100 * n_anomalies >= CONTAMINATION_PERCENT * rows
                       THEN 100 * n_anomalies - CONTAMINATION_PERCENT * rows
                       ELSE CONTAMINATION_PERCENT * rows - 100 * n_anomalies,
               den |-> CONTAMINATION_PERCENT * rows]]

\* A slip in which the whole history is written.
save_training_history_uncapped(s, history_ok) ==
    IF history_ok
    THEN [s EXCEPT !.history_file = Some(s.training_history),
                   !.log = Append(s.log, "SavedHistory")]
    ELSE s

\* ModelTrainer._save_training_history
save_training_history(s, history_ok) ==
    IF history_ok
    THEN [s EXCEPT !.history_file = Some(LastN(s.training_history, HISTORY_KEPT)),
                   !.log = Append(s.log, "SavedHistory")]
    ELSE s

\* A slip in which the early return is taken when force_retrain is set.
skips_training_inverted(trained, force_retrain) == trained /\ force_retrain

\* ModelTrainer.train: "Check if model already exists".
skips_training(trained, force_retrain) == trained /\ ~force_retrain

\* The return of a training run that stops with an error.
Failed(s, error) == [s EXCEPT !.ret = [op |-> "train", success |-> FALSE, error |-> error]]

\* ModelTrainer.train.  env says how the calls into the data source, the
\* library and the file system end: fetch_ok (get_training_data returns),
\* rows and findings (the matrix it returns), normalize_ok, fit, save_ok (joblib.dump),
\* predict_ok and anomalies (predict in the post-fit validation returns, and
\* how many rows it labels -1), history_ok (the history
\* file can be written), summary_ok (the date range of data_summary can be
\* formatted).  The log holds the steps announced and the files written.  The
\* runs of a trainer follow one another, and the number of its fit stands
\* for the start time of a run in its training record.
trainer_train(s0, force_retrain, env) ==
    LET s == [s0 EXCEPT !.log = <<>>]
        step(t, name) == [t EXCEPT !.log = Append(t.log, name)]
    IN
    IF skips_training(s.is_trained, force_retrain)
    THEN [s EXCEPT !.ret = [op |-> "train", success |-> TRUE,
                            message |-> "Model already trained",
                            model_info |-> get_model_info(s), retrained |-> FALSE]]
    ELSE
    LET s1 == step(s, "Fetching") IN
    IF ~env.fetch_ok THEN Failed(s1, "exception")
    ELSE IF env.rows = 0 THEN Failed(s1, "No training data available")
    ELSE
    LET s2 == step(s1, "Validating")
        validation == validate_data([rows |-> env.rows] @@ env.findings)
    IN
    IF ~validation.valid
    THEN [s2 EXCEPT !.ret = [op |-> "train", success |-> FALSE,
                             error |-> validation.error,
                             data_issues |-> validation.issues]]
    ELSE
    LET s3 == step(s2, "Normalizing") IN
    IF ~env.normalize_ok THEN Failed(s3, "exception")
    ELSE
    LET s4 == step(s3, "Fitting")
        fitted == detector_train(s4, env.rows, normalize_features(env.rows),
                                 env.fit, env.save_ok)
    IN
    IF ~fitted.metrics.success THEN Failed(fitted.s, fitted.metrics.error)
    ELSE
    LET s5 == step(fitted.s, "PostValidating")
        validation_results == validate_model(s5, env.rows, env.predict_ok, env.anomalies)
        training_record == [timestamp |-> fitted.s.fits, n_samples |-> env.rows,
                            metrics |-> fitted.metrics,
                            validation |-> validation_results]
        s6 == [s5 EXCEPT !.training_history = Append(s5.training_history, training_record)]
        s7 == save_training_history(s6, env.history_ok)
    IN
    IF ~env.summary_ok THEN Failed(s7, "exception")
    ELSE [s7 EXCEPT !.ret = [op |-> "train", success |-> TRUE,
                             message |-> "Model trained successfully",
                             retrained |-> TRUE,
                             training_metrics |-> fitted.metrics,
                             validation_results |-> validation_results,
                             model_info |-> get_model_info(s7),
                             n_samples |-> env.rows]]

\* AnomalyDetector.predict_single on one sample that the model labels `row`.
predict_single(s, row, predict_ok) ==
    IF ~s.is_trained \/ s.model = None
    THEN [is_anomaly |-> FALSE, error |-> "Model not trained"]
    ELSE IF ~s.model[1].fitted \/ ~predict_ok
    THEN [is_anomaly |-> FALSE, error |-> "exception"]
    ELSE [is_anomaly |-> row.pred = -1, anomaly_score |-> row.score]

\* list.sort(key = anomaly_score), stable.
RECURSIVE SortByScore(_, _)
SortByScore(list, sorted) ==
    IF list = <<>> THEN sorted
    ELSE LET x == Head(list)
             k == Cardinality({ i \in 1..Len(sorted) : sorted[i].anomaly_score <= x.anomaly_score })
         IN  SortByScore(Tail(list),
                         SubSeq(sorted, 1, k) \o <<x>> \o SubSeq(sorted, k + 1, Len(sorted)))

\* The loop of get_anomaly_details over the rows from index i on (1-based here,
\* the record carries the 0-based index).
RECURSIVE details_loop(_, _, _)
details_loop(rows, visit_df, i) ==
    IF i > Len(rows) THEN <<>>
    ELSE (IF rows[i].pred = -1
          THEN << [index |-> i - 1, visit_id |-> visit_df[i],
                   anomaly_score |-> rows[i].score] >>
          ELSE <<>>) \o details_loop(rows, visit_df, i + 1)

\* A slip in which the records are returned in row order.
get_anomaly_details_unsorted(s, rows, visit_df, predict_ok) ==
    IF Len(rows) = 0 \/ Len(visit_df) = 0 THEN <<>>
    ELSE IF detect(s, Len(rows), predict_ok) = 0 THEN <<>>
    ELSE details_loop(rows, visit_df, 1)

\* AnomalyDetector.get_anomaly_details; rows are the labels and scores the
\* model gives to the rows of the matrix, visit_df the visits of those rows.
get_anomaly_details(s, rows, visit_df, predict_ok) ==
    IF Len(rows) = 0 \/ Len(visit_df) = 0 THEN <<>>
    ELSE IF detect(s, Len(rows), predict_ok) = 0 THEN <<>>
    ELSE SortByScore(details_loop(rows, visit_df, 1), <<>>)

-----------------------------------------------------------------------------
(* Inputs and outcomes of the training and detection calls *)

\* Row counts of the training matrix: none, one below the minimum, the minimum.
SampleCounts == {0, MIN_SAMPLES_FOR_TRAINING - 1, MIN_SAMPLES_FOR_TRAINING}

FitOutcomes == {"ok", "fit raises", "score raises"}

\* Row counts of a matrix handed to AnomalyDetector.train directly: none, and
\* fewer than the minimum (which train only warns about).
DetectorTrainRows == {0, MIN_SAMPLES_FOR_TRAINING - 1}

\* The normalization parameters handed over with it: none ({}), or the
\* parameters of a matrix.
DetectorTrainParams == {EmptyDict, normalize_features(MIN_SAMPLES_FOR_TRAINING - 1)}

\* What _validate_data counts in a matrix that get_training_data returns:
\* extract_features has replaced NaN and infinite entries by 0, and the
\* column visit_duration_hours is 0 in every row.
PipelineFindings == { [nan_count |-> 0, inf_count |-> 0, zero_variance_features |-> 1] }

\* The run in which nothing fails.
DefaultEnv ==
    [fetch_ok |-> TRUE, rows |-> MIN_SAMPLES_FOR_TRAINING,
     findings |-> [nan_count |-> 0, inf_count |-> 0, zero_variance_features |-> 1],
     normalize_ok |-> TRUE,
     fit |-> "ok", save_ok |-> TRUE, predict_ok |-> TRUE,
     anomalies |-> (CONTAMINATION_PERCENT * MIN_SAMPLES_FOR_TRAINING) \div 100,
     history_ok |-> TRUE, summary_ok |-> TRUE]

\* The outcomes of one run: what follows the step at which the run stops is
\* not reached and is left as in DefaultEnv.
TrainEnvs ==
    { env \in [fetch_ok : BOOLEAN, rows : SampleCounts, findings : PipelineFindings,
               normalize_ok : BOOLEAN,
               fit : FitOutcomes, save_ok : BOOLEAN, predict_ok : BOOLEAN,
               anomalies : {DefaultEnv.anomalies},
               history_ok : BOOLEAN, summary_ok : BOOLEAN] :
        LET fetched == env.fetch_ok /\ env.rows >= MIN_SAMPLES_FOR_TRAINING
            normalized == fetched /\ env.normalize_ok
            fitted == normalized /\ env.fit = "ok"
        IN  /\ ~env.fetch_ok => env.rows = DefaultEnv.rows
            /\ ~fetched => env.normalize_ok
            /\ ~normalized => env.fit = "ok"
            /\ ~fitted => /\ env.save_ok /\ env.predict_ok
                          /\ env.history_ok /\ env.summary_ok }

\* The label and the score the model gives to a row (a row is an anomaly
\* when its score is below the model's offset).
DetectRows == { [pred |-> -1, score |-> -3], [pred |-> -1, score |-> -2],
                [pred |-> 1, score |-> -1] }

DetectInputs == UNION { [1..n -> DetectRows] : n \in 0..MaxRows }

\* The visits of the rows of a detection matrix.
VisitDf(n) == [i \in 1..n |-> "v" \o ToString(i)]

-----------------------------------------------------------------------------
(* Specification of the detector and the trainer *)

\* The state as the record the functions above work on.
TrainState ==
    [model |-> model, is_trained |-> is_trained,
     normalization_params |-> normalization_params, model_file |-> model_file,
     training_history |-> training_history, history_file |-> history_file,
     fits |-> fits, log |-> log, ret |-> ret]

\* The next state is the record t.
SetTrainState(t) ==
    /\ model' = t.model
    /\ is_trained' = t.is_trained
    /\ normalization_params' = t.normalization_params
    /\ model_file' = t.model_file
    /\ training_history' = t.training_history
    /\ history_file' = t.history_file
    /\ fits' = t.fits
    /\ log' = t.log
    /\ ret' = t.ret

\* AnomalyDetector.__init__ and ModelTrainer.__init__: there is a model file
\* from an earlier process or none, and a model file loads or fails to load.
InitTrain ==
    /\ \E file \in {None, Some([model |-> Some([id |-> 0, fitted |-> TRUE]),
                               normalization_params |-> [mean_std_of |-> MIN_SAMPLES_FOR_TRAINING]])},
          load_ok \in BOOLEAN :
         LET s == load_model([model |-> None, is_trained |-> FALSE,
                              normalization_params |-> EmptyDict, model_file |-> file,
                              training_history |-> <<>>, history_file |-> None,
                              fits |-> 0, log |-> <<>>, ret |-> [op |-> "none"]],
                             load_ok)
         IN  /\ model = s.model
             /\ is_trained = s.is_trained
             /\ normalization_params = s.normalization_params
             /\ model_file = s.model_file
             /\ training_history = s.training_history
             /\ history_file = s.history_file
             /\ fits = s.fits
             /\ log = s.log
             /\ ret = s.ret
    /\ pc = "done"
    /\ IdleCombine
    /\ IdlePriority
    /\ IdleAlerts
    /\ IdleCall

\* One call of ModelTrainer.train.
TrainCall(force_retrain, env) ==
    LET t == trainer_train(TrainState, force_retrain, env)
    IN  /\ t.fits <= MaxFits
        /\ SetTrainState(t)

Train == \E force_retrain \in BOOLEAN, env \in TrainEnvs : TrainCall(force_retrain, env)

\* One call of AnomalyDetector.detect on a matrix whose rows the model labels
\* and scores as in `rows`.
DetectCall(rows, predict_ok) ==
    /\ ret' = [op |-> "detect",
               predictions |-> IF detect(TrainState, Len(rows), predict_ok) = 0
                               THEN <<>>
                               ELSE [i \in 1..Len(rows) |-> rows[i].pred],
               scores |-> IF detect(TrainState, Len(rows), predict_ok) = 0
                          THEN <<>>
                          ELSE [i \in 1..Len(rows) |-> rows[i].score]]
    /\ UNCHANGED <<model, is_trained, normalization_params, model_file,
                   training_history, history_file, fits, log>>

Detect == \E rows \in DetectInputs, predict_ok \in BOOLEAN : DetectCall(rows, predict_ok)

\* One call of AnomalyDetector.predict_single.
PredictSingle ==
    \E row \in DetectRows, predict_ok \in BOOLEAN :
      /\ ret' = [op |-> "predict_single"] @@ predict_single(TrainState, row, predict_ok)
      /\ UNCHANGED <<model, is_trained, normalization_params, model_file,
                     training_history, history_file, fits, log>>

\* One call of AnomalyDetector.get_anomaly_details on a matrix whose rows the
\* model labels and scores as in `rows`, with the visits of those rows.
GetAnomalyDetailsCall(rows, predict_ok) ==
    /\ ret' = [op |-> "get_anomaly_details",
               anomalies |-> get_anomaly_details(TrainState, rows,
                                                 VisitDf(Len(rows)), predict_ok)]
    /\ UNCHANGED <<model, is_trained, normalization_params, model_file,
                   training_history, history_file, fits, log>>

GetAnomalyDetails ==
    \E rows \in DetectInputs, predict_ok \in BOOLEAN : GetAnomalyDetailsCall(rows, predict_ok)

\* One call of AnomalyDetector.train from outside the trainer, on a matrix of
\* `rows` rows with the normalization parameters `params` ({} when the caller
\* passes none).
DetectorTrainCall(rows, params, fit, save_ok) ==
    LET r == detector_train([TrainState EXCEPT !.log = <<>>], rows, params, fit, save_ok)
    IN  /\ r.s.fits <= MaxFits
        /\ SetTrainState([r.s EXCEPT !.ret = [op |-> "detector_train"] @@ r.metrics])

DetectorTrain ==
    \E rows \in DetectorTrainRows, params \in DetectorTrainParams,
       fit \in FitOutcomes, save_ok \in BOOLEAN :
      DetectorTrainCall(rows, params, fit, save_ok)

\* One call of AnomalyDetector.save_model from outside a training run.
SaveModel ==
    \E save_ok \in BOOLEAN :
      LET r == save_model([TrainState EXCEPT !.log = <<>>], save_ok)
      IN  SetTrainState([r.s EXCEPT !.ret = [op |-> "save_model", saved |-> r.saved]])

NextTrain ==
    \/ Train /\ UNCHANGED <<combineVars, prioVars, alertVars, callVars, pc>>
    \/ Detect /\ UNCHANGED <<combineVars, prioVars, alertVars, callVars, pc>>
    \/ PredictSingle /\ UNCHANGED <<combineVars, prioVars, alertVars, callVars, pc>>
    \/ GetAnomalyDetails /\ UNCHANGED <<combineVars, prioVars, alertVars, callVars, pc>>
    \/ SaveModel /\ UNCHANGED <<combineVars, prioVars, alertVars, callVars, pc>>
    \/ DetectorTrain /\ UNCHANGED <<combineVars, prioVars, alertVars, callVars, pc>>

SpecTrain == InitTrain /\ [][NextTrain]_vars

-----------------------------------------------------------------------------
(* Claims about the merge and the priority *)

\* The (visit_id, type) key of an issue.
KeyOf(issue) == <<issue.visit_id, issue.type>>

\* The leakage amount of an issue; one that carries no leakage_amount has 0.
LeakageOf(issue) == Get(issue, "leakage_amount", 0)

\* C1: the list combine_anomalies returns holds no two issues with the same
\* (visit_id, type) key, and for a key that both input lists hold, the issue
\* kept is one of the ML list (marked source = ml), never the rule issue.
C1_DedupMlPrecedence ==
    pc = "done" =>
      /\ \A i, j \in 1..Len(combined) :
           i # j => KeyOf(combined[i]) # KeyOf(combined[j])
      /\ \A m \in 1..Len(ml_anomalies) : \A r \in 1..Len(rule_anomalies) :
           KeyOf(ml_anomalies[m]) = KeyOf(rule_anomalies[r]) =>
             \E i \in 1..Len(combined) :
               /\ KeyOf(combined[i]) = KeyOf(ml_anomalies[m])
               /\ combined[i].source = "ml"
               /\ \E m2 \in 1..Len(ml_anomalies) :
                    combined[i] = SetKey(ml_anomalies[m2], "source", "ml")

\* C1 witness: a returned merge whose inputs held one key in both lists, on
\* issues that differ, next to a second key.
C1_Witness ==
    /\ pc = "done"
    /\ Len(combined) >= 2
    /\ \E m \in 1..Len(ml_anomalies) : \E r \in 1..Len(rule_anomalies) :
         /\ KeyOf(ml_anomalies[m]) = KeyOf(rule_anomalies[r])
         /\ ml_anomalies[m] # rule_anomalies[r]

\* The mapping of C4, on a leakage amount and a severity.
ClaimedPriority(leakage, severity) ==
    CASE leakage >= CRITICAL_PRIORITY_AMOUNT -> PRIORITY_CRITICAL
      [] leakage < CRITICAL_PRIORITY_AMOUNT
           /\ (leakage >= HIGH_PRIORITY_AMOUNT \/ severity = "high") -> PRIORITY_HIGH
      [] leakage < HIGH_PRIORITY_AMOUNT /\ severity = "medium" -> PRIORITY_MEDIUM
      [] OTHER -> PRIORITY_LOW

\* C4: _calculate_priority returns CRITICAL for a leakage amount of at least
\* critical_priority_amount, whatever the severity; else HIGH for an amount of
\* at least high_priority_amount or severity high; else MEDIUM for severity
\* medium; else LOW.  An issue without leakage_amount is read as amount 0 and
\* one without severity as medium, the defaults of the code.
C4_PriorityMapping ==
    pc = "done" =>
      /\ prio_ret = ClaimedPriority(Get(prio_arg, "leakage_amount", 0),
                                    Get(prio_arg, "severity", "medium"))
      /\ (/\ "leakage_amount" \in DOMAIN prio_arg
          /\ prio_arg.leakage_amount = CRITICAL_PRIORITY_AMOUNT)
           => prio_ret = PRIORITY_CRITICAL

\* C4 witness: the priority returned for an issue of severity low whose
\* leakage is exactly critical_priority_amount.
C4_Witness ==
    /\ pc = "done"
    /\ DOMAIN prio_arg = {"visit_id", "type", "leakage_amount", "severity"}
    /\ prio_arg.leakage_amount = CRITICAL_PRIORITY_AMOUNT
    /\ prio_arg.severity = "low"
    /\ prio_ret = PRIORITY_CRITICAL

\* C5: in the list combine_anomalies returns, of two adjacent issues the first
\* has the higher priority, or the same priority and a leakage amount that is
\* not smaller.
C5_SortedByPriorityThenLeakage ==
    pc = "done" =>
      \A i \in 1..(Len(combined) - 1) :
        LET a == combined[i]
            b == combined[i + 1]
        IN  \/ calculate_priority(a) > calculate_priority(b)
            \/ /\ calculate_priority(a) = calculate_priority(b)
               /\ LeakageOf(a) >= LeakageOf(b)

\* C5 witness: a returned list of three in which priority decides against the
\* leakage amount for one adjacent pair and the leakage amount breaks a tie of
\* priority for the other.
C5_Witness ==
    /\ pc = "done"
    /\ Len(combined) = 3
    /\ \E i, j \in 1..2 :
         /\ calculate_priority(combined[i]) > calculate_priority(combined[i + 1])
         /\ LeakageOf(combined[i]) < LeakageOf(combined[i + 1])
         /\ calculate_priority(combined[j]) = calculate_priority(combined[j + 1])
         /\ LeakageOf(combined[j]) > LeakageOf(combined[j + 1])

-----------------------------------------------------------------------------
(* Claims about the alert store *)

\* The lifecycle of the data model: detected -> under-review -> {resolved | false-positive}.
Lifecycle ==
    { <<ALERT_STATUS.DETECTED, ALERT_STATUS.UNDER_REVIEW>>,
      <<ALERT_STATUS.UNDER_REVIEW, ALERT_STATUS.RESOLVED>>,
      <<ALERT_STATUS.UNDER_REVIEW, ALERT_STATUS.FALSE_POSITIVE>> }

\* C2 as claimed: whenever the status of a stored alert changes, the change is
\* one of the lifecycle's transitions.
C2_OnlyLifecycleTransitions ==
    [][\A id \in DOMAIN ai_anomalies :
         ai_anomalies'[id].status # ai_anomalies[id].status =>
           <<ai_anomalies[id].status, ai_anomalies'[id].status>> \in Lifecycle]_vars

\* C2 as amended: an alert enters the store in status detected, its status
\* changes only in a successful update request, and the new status is one of
\* the four configured statuses (whatever the status it had).
C2_StatusChangesOnlyByUpdate ==
    [][\A id \in DOMAIN ai_anomalies' :
         /\ id \notin DOMAIN ai_anomalies =>
              ai_anomalies'[id].status = ALERT_STATUS.DETECTED
         /\ (id \in DOMAIN ai_anomalies
             /\ ai_anomalies'[id].status # ai_anomalies[id].status) =>
              /\ ai_anomalies'[id].status \in valid_statuses
              /\ response'.op = "update_anomaly"
              /\ response'.code = 200
              /\ response'.id = id
              /\ response'.status = ai_anomalies'[id].status]_vars

\* C2 witness: an alert that has been reviewed and is in status detected again
\* next to one that is resolved.
C2_Witness ==
    \E id, id2 \in DOMAIN ai_anomalies :
      /\ ai_anomalies[id].status = ALERT_STATUS.DETECTED
      /\ ai_anomalies[id].reviewedAt # None
      /\ ai_anomalies[id2].status = ALERT_STATUS.RESOLVED

\* C3: every alert create_alert or create_alerts_batch has inserted is in
\* status detected with reviewedBy, reviewedAt and resolutionNotes unset,
\* also when the issue it was made from carries such fields itself.
C3_CreatedDetected ==
    \A id \in DOMAIN ai_anomalies :
      /\ ai_anomalies[id].status = ALERT_STATUS.DETECTED
      /\ ai_anomalies[id].reviewedBy = None
      /\ ai_anomalies[id].reviewedAt = None
      /\ ai_anomalies[id].resolutionNotes = None

\* C3 witness: a batch has stored an alert for the issue that carries
\* status = resolved and review fields (the price-mismatch issue).
C3_Witness ==
    /\ response.op = "create_alerts_batch"
    /\ \E i \in 1..Len(response.summary.alerts) :
         /\ ai_anomalies[response.summary.alerts[i]].anomalyType = "price-mismatch"
         /\ \E issue \in AlertIssues :
              issue.type = "price-mismatch" /\ Get(issue, "status", "") = "resolved"

\* The fields of an alert document other than the four a review may write.
UnreviewedFields ==
    {"anomalyType", "detectionDate", "patient", "visit", "description", "details",
     "anomalyScore", "priority", "source", "metadata", "createdAt"}

\* A reviewer or notes argument that counts as given.
Provided(arg) == arg # None /\ arg # Some("")

\* C6: a step that is update_alert_status on a stored alert (an update request
\* that reached the database with a status the API accepted) sets status and
\* reviewedAt; it leaves reviewedBy as it was when no reviewer is given and
\* resolutionNotes as they were when no notes are given; it leaves every other
\* field of the alert and every other alert as they were.  The request
\* answers 200 with the id and the status when the alert changed; one that
\* answers otherwise has left the whole store as it was.  (A step that answers
\* an update request does not move the clock; the clock moves between calls.)
C6_UpdateFrame ==
    [][(response'.op = "update_anomaly" /\ now' = now) =>
         /\ response'.code # 200 => ai_anomalies' = ai_anomalies
         /\ response'.code = 200 =>
              LET id == response'.id
              IN  /\ DOMAIN ai_anomalies' = DOMAIN ai_anomalies
                  /\ id \in DOMAIN ai_anomalies
                  /\ ai_anomalies'[id].status = response'.status
                  /\ ai_anomalies'[id].reviewedAt = Some(now)
                  /\ \A f \in UnreviewedFields : ai_anomalies'[id][f] = ai_anomalies[id][f]
                  /\ \A other \in DOMAIN ai_anomalies \ {id} :
                       ai_anomalies'[other] = ai_anomalies[other]
                  /\ \A reviewed_by \in ReviewerInputs, resolution_notes \in NotesInputs :
                       UpdateAnomalyCall(id, Some(response'.status), reviewed_by,
                                         resolution_notes, TRUE) =>
                         /\ ~Provided(reviewed_by) =>
                              ai_anomalies'[id].reviewedBy = ai_anomalies[id].reviewedBy
                         /\ ~Provided(resolution_notes) =>
                              ai_anomalies'[id].resolutionNotes
                                = ai_anomalies[id].resolutionNotes]_vars

\* C6 witness: an alert updated without reviewer and notes after an earlier
\* update had set both (its reviewedAt is later than its detection and both
\* are kept), next to a second alert no update has touched.
C6_Witness ==
    /\ response.op = "update_anomaly"
    /\ response.code = 200
    /\ \E id, other \in DOMAIN ai_anomalies :
         /\ id # other
         /\ response.id = id
         /\ ai_anomalies[id].reviewedAt = Some(now)
         /\ ai_anomalies[id].detectionDate < now
         /\ ai_anomalies[id].reviewedBy = Some("u1")
         /\ ai_anomalies[id].resolutionNotes = Some("checked")
         /\ ai_anomalies[id].status = ALERT_STATUS.UNDER_REVIEW
         /\ ai_anomalies[other].status = ALERT_STATUS.DETECTED
         /\ ai_anomalies[other].reviewedAt = None

\* The number of i with oks[i] = b.
RECURSIVE CountOks(_, _)
CountOks(oks, b) ==
    IF oks = <<>> THEN 0
    ELSE (IF Head(oks) = b THEN 1 ELSE 0) + CountOks(Tail(oks), b)

\* C7: a step that is create_alerts_batch on a list of issues, whichever of
\* its inserts fail, returns a summary with total = the number of issues,
\* created + failed = total, created = the number of inserts that succeeded
\* (every issue is attempted), and a list of `created` distinct alert ids, each
\* of an alert that is new in the store.
C7_BatchSummary ==
    [][\A k \in 0..MaxBatch :
         \A anomalies \in [1..k -> AlertIssues], oks \in [1..k -> BOOLEAN] :
           CreateAlertsBatchCall(anomalies, oks) =>
             LET summary == response'.summary
             IN  /\ summary.total = Len(anomalies)
                 /\ summary.created + summary.failed = summary.total
                 /\ summary.created = CountOks(oks, TRUE)
                 /\ Len(summary.alerts) = summary.created
                 /\ Cardinality({ summary.alerts[i] : i \in 1..Len(summary.alerts) })
                      = summary.created
                 /\ \A i \in 1..Len(summary.alerts) :
                      /\ summary.alerts[i] \in DOMAIN ai_anomalies'
                      /\ summary.alerts[i] \notin DOMAIN ai_anomalies]_vars

\* C7 witness: a batch of two has returned in which one insert failed and
\* the other succeeded.
C7_Witness ==
    /\ response.op = "create_alerts_batch"
    /\ response.summary.total = 2
    /\ response.summary.failed = 1
    /\ response.summary.created = 1
    /\ response.summary.alerts[1] \in DOMAIN ai_anomalies

-----------------------------------------------------------------------------
(* Claims about the detector and the training pipeline *)

\* C8: a step that is ModelTrainer.train(force_retrain = False) on a detector
\* that is trained, in whatever state any earlier calls (such calls included)
\* have left it, constructs and fits no model, leaves the model, the
\* normalization parameters, the model file, the training history and the
\* history file as they were, leaves the detector trained, and returns
\* success with retrained = False.
C8_TrainIdempotent ==
    [][(is_trained /\ ret'.op = "train"
        /\ \E env \in TrainEnvs : TrainCall(FALSE, env)) =>
         /\ fits' = fits
         /\ model' = model
         /\ normalization_params' = normalization_params
         /\ model_file' = model_file
         /\ training_history' = training_history
         /\ history_file' = history_file
         /\ is_trained'
         /\ ret'.success
         /\ ret'.retrained = FALSE]_vars

\* C8 witness: train has returned retrained = False on a detector that a
\* training run of this process had trained and saved.
C8_Witness ==
    /\ ret.op = "train"
    /\ ret.success
    /\ ~ret.retrained
    /\ is_trained
    /\ training_history # <<>>
    /\ model_file = Some([model |-> model, normalization_params |-> normalization_params])

\* The stages of a training run, in order.
StageOrder == <<"Fetching", "Validating", "Normalizing", "Fitting", "PostValidating">>

\* The entries of a log that announce a stage.
StagesOf(l) == SelectSeq(l, LAMBDA e : e \in { StageOrder[i] : i \in 1..Len(StageOrder) })

IsPrefix(p, q) == Len(p) <= Len(q) /\ SubSeq(q, 1, Len(p)) = p

C10_TrainedOneWay == [][is_trained => is_trained']_vars

\* C10 witness: a detector loaded from the model file at start is still
\* trained after a forced training run whose fit raised (its model is the
\* unfitted one of that run).
C10_Witness ==
    /\ is_trained
    /\ ret.op = "train"
    /\ ~ret.success
    /\ ret.error = "fit"
    /\ model = Some([id |-> 1, fitted |-> FALSE])
    /\ model_file # None
    /\ model_file[1].model = Some([id |-> 0, fitted |-> TRUE])

-----------------------------------------------------------------------------
(* Data validation: ModelTrainer._validate_data and step 2 of train, on one *)
(* matrix.  The matrix is the argument; the one step is a forced training   *)
(* run of a new trainer on that matrix.                                     *)

\* Matrices on and around the minimum of rows, with NaN entries none, exactly
\* 10% and just above 10%, with and without infinite entries and
\* zero-variance columns.
ValidateInputs ==
    { [rows |-> r, nan_count |-> nan, inf_count |-> inf, zero_variance_features |-> zv] :
        r \in { 1, MIN_SAMPLES_FOR_TRAINING - 1, MIN_SAMPLES_FOR_TRAINING,
                MIN_SAMPLES_FOR_TRAINING + 1 },
        nan \in { 0, MIN_SAMPLES_FOR_TRAINING, MIN_SAMPLES_FOR_TRAINING + 2 },
        inf \in { 0, 1 }, zv \in { 0, 1 } }

\* nan_percentage > 10
NanOverTenPercent(features) ==
    features.nan_count * 100 > 10 * (features.rows * N_FEATURES)

InitValidateData ==
    /\ pc = "call"
    /\ args \in { f \in ValidateInputs : f.nan_count <= f.rows * N_FEATURES }
    /\ retval = <<>>
    /\ IdleTrain
    /\ IdleCombine
    /\ IdlePriority
    /\ IdleAlerts

\* train(force_retrain = True) on the matrix args, whatever the outcomes of
\* the steps after the validation; retval is what _validate_data returned.
ValidateData ==
    /\ pc = "call"
    /\ pc' = "done"
    /\ retval' = validate_data(args)
    /\ \E env \in TrainEnvs :
         /\ env.fetch_ok
         /\ env.rows = MIN_SAMPLES_FOR_TRAINING
         /\ SetTrainState(trainer_train(TrainState, TRUE,
                [env EXCEPT !.rows = args.rows,
                            !.findings = [nan_count |-> args.nan_count,
                                          inf_count |-> args.inf_count,
                                          zero_variance_features |->
                                              args.zero_variance_features]]))
    /\ UNCHANGED <<args, combineVars, prioVars, alertVars>>

SpecValidateData == InitValidateData /\ [][ValidateData]_vars

\* The entries of a sequence.
Range(seq) == { seq[i] : i \in 1..Len(seq) }

\* C11: _validate_data returns valid = False exactly when the matrix has fewer
\* rows than the configured minimum; more than 10% NaN entries, infinite
\* entries and zero-variance columns are each recorded in the issues and do
\* not make it fail; the training run goes on to Normalizing exactly when the
\* rows reach the minimum, and then to Fitting unless the normalization
\* itself raised; a run that stops at the validation reports the issues
\* and has built no model.
C11_ValidationFailsIffTooFewRows ==
    pc = "done" =>
      /\ retval.valid <=> args.rows >= MIN_SAMPLES_FOR_TRAINING
      /\ ("samples" \in Range(retval.issues)) <=> args.rows < MIN_SAMPLES_FOR_TRAINING
      /\ ("nan" \in Range(retval.issues)) <=> NanOverTenPercent(args)
      /\ ("inf" \in Range(retval.issues)) <=> args.inf_count > 0
      /\ ("zero variance" \in Range(retval.issues)) <=> args.zero_variance_features > 0
      /\ ("Normalizing" \in Range(log)) <=> args.rows >= MIN_SAMPLES_FOR_TRAINING
      /\ ("Fitting" \in Range(log)) =>  args.rows >= MIN_SAMPLES_FOR_TRAINING
      /\ (args.rows >= MIN_SAMPLES_FOR_TRAINING /\ "Fitting" \notin Range(log)) =>
           (~ret.success /\ ret.error = "exception")
      /\ args.rows < MIN_SAMPLES_FOR_TRAINING =>
           /\ ~ret.success
           /\ ret.error = "Insufficient training data"
           /\ ret.data_issues = retval.issues
           /\ log = <<"Fetching", "Validating">>
           /\ model = None
           /\ fits = 0

\* C11 witness: a matrix with enough rows, more than 10% NaN entries, an
\* infinite entry and a zero-variance column has passed the validation with
\* the three issues recorded, and the run has reached Fitting.
C11_Witness ==
    /\ pc = "done"
    /\ args.rows = MIN_SAMPLES_FOR_TRAINING
    /\ retval.valid
    /\ retval.issues = <<"nan", "inf", "zero variance">>
    /\ "Fitting" \in Range(log)
    /\ fits = 1

-----------------------------------------------------------------------------
(* Claims about detection *)

\* What detect returns when it has no predictions: two empty arrays.
EmptyDetectResult == [op |-> "detect", predictions |-> <<>>, scores |-> <<>>]

\* C12 as claimed: detect on a detector that is not trained ends in an
\* outcome of its own, different from the two empty arrays that detect on a
\* trained detector returns for an empty matrix.
C12_NotTrainedIsFailure ==
    [][ret'.op = "detect" =>
         \A rows \in DetectInputs, predict_ok \in BOOLEAN :
           DetectCall(rows, predict_ok) =>
             /\ ~is_trained => ret' # EmptyDetectResult
             /\ (is_trained /\ rows = <<>>) => ret' = EmptyDetectResult]_vars

\* C12 as amended: detect on a detector that is not trained returns two
\* empty arrays, whatever the matrix, and so does detect on a trained detector
\* for an empty matrix; a detector whose model is fitted returns one label
\* and one score per row of a matrix that is not empty, unless predict
\* raises; detect changes nothing in the detector.
C12_EmptyArraysWhenUntrainedOrEmpty ==
    [][ret'.op = "detect" =>
         \A rows \in DetectInputs, predict_ok \in BOOLEAN :
           DetectCall(rows, predict_ok) =>
             /\ (~is_trained \/ rows = <<>>) => ret' = EmptyDetectResult
             /\ (is_trained /\ model # None /\ model[1].fitted /\ predict_ok) =>
                  /\ Len(ret'.predictions) = Len(rows)
                  /\ Len(ret'.scores) = Len(rows)
             /\ is_trained' = is_trained
             /\ model' = model]_vars

\* C12 witness: detect has returned two empty arrays on a detector that is
\* not trained.
C12_Witness ==
    /\ ~is_trained
    /\ ret = EmptyDetectResult

\* C13: a step that is AnomalyDetector.train on a matrix with no rows,
\* whatever parameters come with it and in whatever state the detector is,
\* returns success = False with the error "Empty training data", constructs no
\* model, and leaves model, is_trained, normalization_params and the model
\* file as they were.
C13_EmptyTrainLeavesDetector ==
    [][ret'.op = "detector_train" =>
         \A params \in DetectorTrainParams, fit \in FitOutcomes, save_ok \in BOOLEAN :
           DetectorTrainCall(0, params, fit, save_ok) =>
             /\ ~ret'.success
             /\ ret'.error = "Empty training data"
             /\ fits' = fits
             /\ model' = model
             /\ is_trained' = is_trained
             /\ normalization_params' = normalization_params
             /\ model_file' = model_file]_vars

\* C13 witness: train on an empty matrix has failed on a detector that is
\* trained and has its model in the model file.
C13_Witness ==
    /\ ret.op = "detector_train"
    /\ ~ret.success
    /\ ret.error = "Empty training data"
    /\ is_trained
    /\ model_file = Some([model |-> model, normalization_params |-> normalization_params])

-----------------------------------------------------------------------------
(* The rule engine: PatternAnalyzer.  The database is a record of the      *)
(* collections, each the sequence of documents a find returns them in; a   *)
(* document is a dict.  Times are in hours; the documents of a window of   *)
(* `days` days at time t are those dated from t - 24 * days to t.  The     *)
(* value of a billing's items is [iterable |-> TRUE, list |-> <<...>>] for *)
(* a list and [iterable |-> FALSE] for what a for loop raises on (null).   *)
(* A list element that is not a dict is the dict with the one key          *)
(* not_a_dict.  Each detector returns [issues, raised]: what it returns    *)
(* and whether its except clause was entered.                              *)

DEFAULT_DAYS == 7
MIN_LEAKAGE_AMOUNT == 100
PRICE_VARIANCE_PERCENT == 10
BILLING_DELAY_HOURS == 24

\* start_date <= date <= end_date
InWindow(date, t, days) == t - 24 * days <= date /\ date <= t

\* isinstance(item, dict)
IsDict(item) == "not_a_dict" \notin DOMAIN item

\* billing.get('items', [])
ItemsOf(billing) == Get(billing, "items", [iterable |-> TRUE, list |-> <<>>])

\* db.billings.find({'billDate': {'$gte': start_date, '$lte': end_date}})
billings_in_window(db, t, days) ==
    SelectSeq(db.billings,
              LAMBDA b : "billDate" \in DOMAIN b /\ InWindow(b.billDate, t, days))

\* The first billing of a visit, as find_one({'visit': visit_id}) returns it:
\* <<billing>>, or <<>> when there is none.
find_one_billing(db, visit_id) ==
    LET found == SelectSeq(db.billings,
                           LAMBDA b : "visit" \in DOMAIN b /\ b.visit = visit_id)
    IN  IF found = <<>> THEN <<>> ELSE <<Head(found)>>

\* The issue detect_duplicate_billings appends for a repeated item.
duplicate_issue(billing, item, item_type, ref) ==
    [type |-> "duplicate-billing",
     patient_id |-> FmtGet(billing, "patient"),
     visit_id |-> FmtGet(billing, "visit"),
     bill_id |-> FmtGet(billing, "_id"),
     description |-> "Duplicate " \o item_type \o " item in billing",
     service |-> item_type,
     item_reference |-> ref,
     duplicate_amount |-> Get(item, "amount", 0),
     severity |-> "high"]

\* A slip in which the first occurrence is flagged together with the second.
RECURSIVE duplicate_items_loop_both(_, _, _, _)
duplicate_items_loop_both(billing, items, item_refs, issues) ==
    IF items = <<>> THEN issues
    ELSE LET item == Head(items)
             ref == Get(item, "itemReference", "")
             item_type == Get(item, "itemType", "")
             key == item_type \o ":" \o ref
         IN  IF ~IsDict(item) \/ ref = "" \/ item_type = ""
             THEN duplicate_items_loop_both(billing, Tail(items), item_refs, issues)
             ELSE IF key \in DOMAIN item_refs
             THEN duplicate_items_loop_both(billing, Tail(items), item_refs,
                      issues \o << duplicate_issue(billing, item_refs[key], item_type, ref),
                                   duplicate_issue(billing, item, item_type, ref) >>)
             ELSE duplicate_items_loop_both(billing, Tail(items),
                                            SetKey(item_refs, key, item), issues)

\* detect_duplicate_billings: "for item in items" of one billing; item_refs
\* maps the keys seen to their first item.
RECURSIVE duplicate_items_loop(_, _, _, _)
duplicate_items_loop(billing, items, item_refs, issues) ==
    IF items = <<>> THEN issues
    ELSE LET item == Head(items)
             ref == Get(item, "itemReference", "")
             item_type == Get(item, "itemType", "")
             key == item_type \o ":" \o ref
         IN  IF ~IsDict(item) \/ ref = "" \/ item_type = ""
             THEN duplicate_items_loop(billing, Tail(items), item_refs, issues)
             ELSE IF key \in DOMAIN item_refs
             THEN duplicate_items_loop(billing, Tail(items), item_refs,
                      Append(issues, duplicate_issue(billing, item, item_type, ref)))
             ELSE duplicate_items_loop(billing, Tail(items),
                                       SetKey(item_refs, key, item), issues)

\* detect_duplicate_billings: "for billing in billings"; a billing whose items
\* cannot be iterated ends the loop in the except clause.
RECURSIVE duplicate_billings_loop(_, _)
duplicate_billings_loop(billings, issues) ==
    IF billings = <<>> THEN [issues |-> issues, raised |-> FALSE]
    ELSE LET billing == Head(billings)
             items == ItemsOf(billing)
         IN  IF ~items.iterable THEN [issues |-> issues, raised |-> TRUE]
             ELSE duplicate_billings_loop(Tail(billings),
                      duplicate_items_loop(billing, items.list, EmptyDict, issues))

\* PatternAnalyzer.detect_duplicate_billings at time t; find_ok is whether
\* db.billings.find returns.
detect_duplicate_billings(db, days, t, find_ok) ==
    IF ~find_ok THEN [issues |-> <<>>, raised |-> TRUE]
    ELSE duplicate_billings_loop(billings_in_window(db, t, days), <<>>)

-----------------------------------------------------------------------------
(* detect_duplicate_billings on one database *)

MaxItems == 3

\* Billing items: lab A, lab B, medicine A (each with an amount), a lab item
\* with no reference, and an element that is not a dict.
DupItems ==
    { [itemType |-> "lab", itemReference |-> "A", amount |-> 10],
      [itemType |-> "lab", itemReference |-> "B", amount |-> 20],
      [itemType |-> "medicine", itemReference |-> "A", amount |-> 30],
      [itemType |-> "lab", amount |-> 40],
      [not_a_dict |-> TRUE] }

DupItemLists == UNION { [1..n -> DupItems] : n \in 0..MaxItems }

\* The items of the second billing: none, an item that the first billing may
\* hold as well, or a repeated item.
SecondBillingLists ==
    { <<>>,
      << [itemType |-> "lab", itemReference |-> "A", amount |-> 10] >>,
      << [itemType |-> "lab", itemReference |-> "A", amount |-> 10],
         [itemType |-> "lab", itemReference |-> "A", amount |-> 10] >> }

\* Databases with a billing b1 inside the window and a billing b2 inside or
\* outside of it.
DupDatabases ==
    { [billings |->
         << [_id |-> "b1", visit |-> "v1", patient |-> "p1", billDate |-> -1,
             items |-> [iterable |-> TRUE, list |-> l1]],
            [_id |-> "b2", visit |-> "v2", patient |-> "p2", billDate |-> d2,
             items |-> [iterable |-> TRUE, list |-> l2]] >>] :
        l1 \in DupItemLists, l2 \in SecondBillingLists,
        d2 \in { -2, 0 - 24 * DEFAULT_DAYS - 1 } }

InitDuplicates ==
    /\ pc = "call"
    /\ args \in DupDatabases
    /\ retval = <<>>
    /\ IdleTrain
    /\ IdleCombine
    /\ IdlePriority
    /\ IdleAlerts

DetectDuplicateBillings ==
    /\ pc = "call"
    /\ pc' = "done"
    /\ retval' = detect_duplicate_billings(args, DEFAULT_DAYS, now, TRUE).issues
    /\ UNCHANGED <<args, combineVars, prioVars, alertVars, trainVars>>

SpecDuplicates == InitDuplicates /\ [][DetectDuplicateBillings]_vars

\* The items of a billing that have an item type and a reference: the
\* indices of them, and their (itemType, itemReference) pairs.
KeyedItems(billing) ==
    { i \in 1..Len(billing.items.list) :
        /\ IsDict(billing.items.list[i])
        /\ Get(billing.items.list[i], "itemReference", "") # ""
        /\ Get(billing.items.list[i], "itemType", "") # "" }

PairOf(item) == <<item.itemType, item.itemReference>>

\* The issues returned for the billing with this _id.
IssuesOfBill(issues, bill_id) == SelectSeq(issues, LAMBDA x : x.bill_id = bill_id)

\* C16: for every billing of the window, the issues returned for it are one
\* per keyed item that has an earlier keyed item with the same (itemType,
\* itemReference) pair, in the order of the items, each of type
\* duplicate-billing with severity high and the pair of its item; their number
\* is the number of keyed items minus the number of distinct pairs; a billing
\* outside the window has no issue.
C16_OneIssuePerRepeat ==
    pc = "done" =>
      \A b \in 1..Len(args.billings) :
        LET billing == args.billings[b]
            list == billing.items.list
            keyed == KeyedItems(billing)
            repeats == { i \in keyed :
                           \E j \in keyed : j < i /\ PairOf(list[j]) = PairOf(list[i]) }
            mine == IssuesOfBill(retval, billing._id)
        IN  IF InWindow(billing.billDate, now, DEFAULT_DAYS)
            THEN /\ Len(mine) = Cardinality(keyed)
                                  - Cardinality({ PairOf(list[i]) : i \in keyed })
                 /\ Len(mine) = Cardinality(repeats)
                 /\ \A k \in 1..Len(mine) :
                      /\ mine[k].type = "duplicate-billing"
                      /\ mine[k].severity = "high"
                      /\ \E i \in repeats :
                           /\ Cardinality({ j \in repeats : j < i }) = k - 1
                           /\ mine[k].service = list[i].itemType
                           /\ mine[k].item_reference = list[i].itemReference
                           /\ mine[k].duplicate_amount = list[i].amount
            ELSE mine = <<>>

\* C16 witness: a billing with two identical lab items (and nothing else) has
\* got exactly one issue.
C16_Witness ==
    /\ pc = "done"
    /\ args.billings[1].items.list
         = << [itemType |-> "lab", itemReference |-> "A", amount |-> 10],
              [itemType |-> "lab", itemReference |-> "A", amount |-> 10] >>
    /\ Len(IssuesOfBill(retval, "b1")) = 1

-----------------------------------------------------------------------------
(* detect_price_mismatches.  Rates and quantities are integers; a variance *)
(* is kept as the fraction [num, den] it is the quotient of, and compared  *)
(* by cross-multiplication.                                                *)

Abs(x) == IF x < 0 THEN 0 - x ELSE x

Max(a, b) == IF a > b THEN a ELSE b

\* f"{variance:.1%}" of the fraction num / den: the nearest tenth of a percent.
FormatPercent(num, den) ==
    LET tenths == (2000 * num + den) \div (2 * den)
    IN  ToString(tenths \div 10) \o "." \o ToString(tenths % 10) \o "%"

\* A slip in which the leakage threshold is inclusive.
price_mismatch_of_item_inclusive(billing, item, tariffs) ==
    LET item_code == Get(item, "itemCode", Get(item, "serviceCode", ""))
        charged_rate == Get(item, "rate", 0)
        quantity == Get(item, "quantity", 1)
    IN  IF ~IsDict(item) \/ item_code = "" \/ item_code \notin DOMAIN tariffs
        THEN <<>>
        ELSE LET tariff_rate == tariffs[item_code]
                 diff == Abs(charged_rate - tariff_rate)
                 leakage == Max(0, tariff_rate - charged_rate) * quantity
             IN  IF /\ tariff_rate > 0
                    /\ 100 * diff > PRICE_VARIANCE_PERCENT * tariff_rate
                    /\ leakage >= MIN_LEAKAGE_AMOUNT
                 THEN << [type |-> "price-mismatch",
                          patient_id |-> FmtGet(billing, "patient"),
                          visit_id |-> FmtGet(billing, "visit"),
                          bill_id |-> FmtGet(billing, "_id"),
                          description |-> "Charged rate differs from tariff by "
                                            \o FormatPercent(diff, tariff_rate),
                          service |-> Get(item, "itemType", "unknown"),
                          item_code |-> item_code,
                          charged_rate |-> charged_rate,
                          tariff_rate |-> tariff_rate,
                          variance_percent |-> [num |-> 100 * diff, den |-> tariff_rate],
                          expected_revenue |-> tariff_rate * quantity,
                          actual_revenue |-> charged_rate * quantity,
                          leakage_amount |-> leakage,
                          severity |-> IF 10 * diff < 3 * tariff_rate
                                       THEN "medium" ELSE "high"] >>
                 ELSE <<>>

\* A slip in which a variance of exactly 30% is still medium.
price_mismatch_of_item_strict_high(billing, item, tariffs) ==
    LET item_code == Get(item, "itemCode", Get(item, "serviceCode", ""))
        charged_rate == Get(item, "rate", 0)
        quantity == Get(item, "quantity", 1)
    IN  IF ~IsDict(item) \/ item_code = "" \/ item_code \notin DOMAIN tariffs
        THEN <<>>
        ELSE LET tariff_rate == tariffs[item_code]
                 diff == Abs(charged_rate - tariff_rate)
                 leakage == Max(0, tariff_rate - charged_rate) * quantity
             IN  IF /\ tariff_rate > 0
                    /\ 100 * diff > PRICE_VARIANCE_PERCENT * tariff_rate
                    /\ leakage > MIN_LEAKAGE_AMOUNT
                 THEN << [type |-> "price-mismatch",
                          patient_id |-> FmtGet(billing, "patient"),
                          visit_id |-> FmtGet(billing, "visit"),
                          bill_id |-> FmtGet(billing, "_id"),
                          description |-> "Charged rate differs from tariff by "
                                            \o FormatPercent(diff, tariff_rate),
                          service |-> Get(item, "itemType", "unknown"),
                          item_code |-> item_code,
                          charged_rate |-> charged_rate,
                          tariff_rate |-> tariff_rate,
                          variance_percent |-> [num |-> 100 * diff, den |-> tariff_rate],
                          expected_revenue |-> tariff_rate * quantity,
                          actual_revenue |-> charged_rate * quantity,
                          leakage_amount |-> leakage,
                          severity |-> IF 10 * diff <= 3 * tariff_rate
                                       THEN "medium" ELSE "high"] >>
                 ELSE <<>>

\* detect_price_mismatches: the body of "for item in items": the issue
\* appended for the item, if any.
price_mismatch_of_item(billing, item, tariffs) ==
    LET item_code == Get(item, "itemCode", Get(item, "serviceCode", ""))
        charged_rate == Get(item, "rate", 0)
        quantity == Get(item, "quantity", 1)
    IN  IF ~IsDict(item) \/ item_code = "" \/ item_code \notin DOMAIN tariffs
        THEN <<>>
        ELSE LET tariff_rate == tariffs[item_code]
                 diff == Abs(charged_rate - tariff_rate)
                 leakage == Max(0, tariff_rate - charged_rate) * quantity
             IN  IF /\ tariff_rate > 0
                    /\ 100 * diff > PRICE_VARIANCE_PERCENT * tariff_rate
                    /\ leakage > MIN_LEAKAGE_AMOUNT
                 THEN << [type |-> "price-mismatch",
                          patient_id |-> FmtGet(billing, "patient"),
                          visit_id |-> FmtGet(billing, "visit"),
                          bill_id |-> FmtGet(billing, "_id"),
                          description |-> "Charged rate differs from tariff by "
                                            \o FormatPercent(diff, tariff_rate),
                          service |-> Get(item, "itemType", "unknown"),
                          item_code |-> item_code,
                          charged_rate |-> charged_rate,
                          tariff_rate |-> tariff_rate,
                          variance_percent |-> [num |-> 100 * diff, den |-> tariff_rate],
                          expected_revenue |-> tariff_rate * quantity,
                          actual_revenue |-> charged_rate * quantity,
                          leakage_amount |-> leakage,
                          severity |-> IF 10 * diff < 3 * tariff_rate
                                       THEN "medium" ELSE "high"] >>
                 ELSE <<>>

RECURSIVE price_items_loop(_, _, _, _)
price_items_loop(billing, items, tariffs, issues) ==
    IF items = <<>> THEN issues
    ELSE price_items_loop(billing, Tail(items), tariffs,
                          issues \o price_mismatch_of_item(billing, Head(items), tariffs))

\* detect_price_mismatches: "for billing in billings".
RECURSIVE price_billings_loop(_, _, _)
price_billings_loop(billings, tariffs, issues) ==
    IF billings = <<>> THEN [issues |-> issues, raised |-> FALSE]
    ELSE LET billing == Head(billings)
             items == ItemsOf(billing)
         IN  IF ~items.iterable THEN [issues |-> issues, raised |-> TRUE]
             ELSE price_billings_loop(Tail(billings), tariffs,
                      price_items_loop(billing, items.list, tariffs, issues))

\* PatternAnalyzer.detect_price_mismatches at time t with the tariffs loaded
\* at construction.
detect_price_mismatches(db, tariffs, days, t, find_ok) ==
    IF ~find_ok THEN [issues |-> <<>>, raised |-> TRUE]
    ELSE price_billings_loop(billings_in_window(db, t, days), tariffs, <<>>)

\* Billed items: a code of the tariff table, given as itemCode or as
\* serviceCode, or a code that is not in it; rate and quantity present or not.
PriceCodes == { [itemCode |-> "LAB001"], [serviceCode |-> "LAB001"],
                [itemCode |-> "XRAY9"], EmptyDict }
PriceRates == { [rate |-> r] : r \in {60, 70, 80, 90, 100, 120} } \cup { EmptyDict }
PriceQuantities == { [quantity |-> q] : q \in {1, 5, 6} } \cup { EmptyDict }

PriceItems ==
    { c @@ r @@ q @@ [itemType |-> "lab"] :
        c \in PriceCodes, r \in PriceRates, q \in PriceQuantities }

\* Tariff tables as _load_tariffs leaves them.
TariffTables == { EmptyDict, [LAB001 |-> 100], [LAB001 |-> 0] }

PriceInputs ==
    { [db |-> [billings |->
                 << [_id |-> "b1", visit |-> "v1", patient |-> "p1", billDate |-> -1,
                     items |-> [iterable |-> TRUE, list |-> <<item>>]] >>],
       tariffs |-> tariffs] :
        item \in PriceItems, tariffs \in TariffTables }

InitPriceMismatch ==
    /\ pc = "call"
    /\ args \in PriceInputs
    /\ retval = <<>>
    /\ IdleTrain
    /\ IdleCombine
    /\ IdlePriority
    /\ IdleAlerts

DetectPriceMismatches ==
    /\ pc = "call"
    /\ pc' = "done"
    /\ retval' = detect_price_mismatches(args.db, args.tariffs, DEFAULT_DAYS, now, TRUE).issues
    /\ UNCHANGED <<args, combineVars, prioVars, alertVars, trainVars>>

SpecPriceMismatch == InitPriceMismatch /\ [][DetectPriceMismatches]_vars

\* The billed item under check.
BilledItem == args.db.billings[1].items.list[1]

\* The item of the example: tariff rate 100, charged rate 80, quantity 5.
IsExampleItem ==
    /\ args.tariffs = [LAB001 |-> 100]
    /\ Get(BilledItem, "itemCode", Get(BilledItem, "serviceCode", "")) = "LAB001"
    /\ Get(BilledItem, "rate", 0) = 80
    /\ Get(BilledItem, "quantity", 1) = 5

\* C17: tariff rate 100, charged rate 80, quantity 5: the detector returns one
\* price-mismatch issue, with variance 20% and leakage_amount 100.
C17_ExampleFires ==
    (pc = "done" /\ IsExampleItem) =>
        /\ Len(retval) = 1
        /\ retval[1].type = "price-mismatch"
        /\ retval[1].variance_percent.num = 20 * retval[1].variance_percent.den
        /\ retval[1].leakage_amount = 100

\* What the detector does with the item of the example: the variance of 20%
\* passes the threshold, the leakage of 100 does not exceed the minimum, and
\* no issue is returned.
C17_ExampleNotFlagged ==
    /\ pc = "done"
    /\ IsExampleItem
    /\ retval = <<>>

-----------------------------------------------------------------------------
(* detect_unbilled_services *)

DEFAULT_CONSULTATION_FEE == 500

\* db.emr.find({'date': {'$gte': start_date, '$lte': end_date}})
emr_in_window(db, t, days) ==
    SelectSeq(db.emr, LAMBDA e : "date" \in DOMAIN e /\ InWindow(e.date, t, days))

\* any(item.get('itemType') == 'consultation' for item in items
\*     if isinstance(item, dict))
has_consultation(list) ==
    \E i \in 1..Len(list) :
        IsDict(list[i]) /\ Get(list[i], "itemType", "") = "consultation"

\* The issue for an EMR record whose visit has no billing.
no_billing_issue(emr, tariffs) ==
    [type |-> "unbilled-service",
     patient_id |-> FmtGet(emr, "patient"),
     visit_id |-> emr.visit,
     description |-> "EMR record exists but no billing found",
     service |-> "consultation",
     expected_revenue |-> Get(tariffs, "CONSULTATION", DEFAULT_CONSULTATION_FEE),
     actual_revenue |-> 0,
     leakage_amount |-> Get(tariffs, "CONSULTATION", DEFAULT_CONSULTATION_FEE),
     emr_date |-> emr.date,
     severity |-> "high"]

\* The issue for an EMR record whose billing has no consultation item.
no_consultation_issue(emr, billing, tariffs) ==
    [type |-> "unbilled-service",
     patient_id |-> FmtGet(emr, "patient"),
     visit_id |-> emr.visit,
     bill_id |-> FmtGet(billing, "_id"),
     description |-> "Consultation not billed despite EMR record",
     service |-> "consultation",
     expected_revenue |-> Get(tariffs, "CONSULTATION", DEFAULT_CONSULTATION_FEE),
     actual_revenue |-> 0,
     leakage_amount |-> Get(tariffs, "CONSULTATION", DEFAULT_CONSULTATION_FEE),
     severity |-> "medium"]

\* A slip in which an EMR record without a billing is passed over.
RECURSIVE unbilled_services_loop_skips(_, _, _, _)
unbilled_services_loop_skips(db, emr_records, tariffs, issues) ==
    IF emr_records = <<>> THEN [issues |-> issues, raised |-> FALSE]
    ELSE LET emr == Head(emr_records)
             found == IF "visit" \in DOMAIN emr
                      THEN find_one_billing(db, emr.visit) ELSE <<>>
         IN  IF "visit" \notin DOMAIN emr \/ found = <<>>
             THEN unbilled_services_loop_skips(db, Tail(emr_records), tariffs, issues)
             ELSE LET billing == found[1]
                      items == ItemsOf(billing)
                  IN  IF ~items.iterable THEN [issues |-> issues, raised |-> TRUE]
                      ELSE unbilled_services_loop_skips(db, Tail(emr_records), tariffs,
                               IF has_consultation(items.list) THEN issues
                               ELSE Append(issues,
                                           no_consultation_issue(emr, billing, tariffs)))

\* detect_unbilled_services: "for emr in emr_records".
RECURSIVE unbilled_services_loop(_, _, _, _)
unbilled_services_loop(db, emr_records, tariffs, issues) ==
    IF emr_records = <<>> THEN [issues |-> issues, raised |-> FALSE]
    ELSE LET emr == Head(emr_records)
             found == IF "visit" \in DOMAIN emr
                      THEN find_one_billing(db, emr.visit) ELSE <<>>
         IN  IF "visit" \notin DOMAIN emr
             THEN unbilled_services_loop(db, Tail(emr_records), tariffs, issues)
             ELSE IF found = <<>>
             THEN unbilled_services_loop(db, Tail(emr_records), tariffs,
                      Append(issues, no_billing_issue(emr, tariffs)))
             ELSE LET billing == found[1]
                      items == ItemsOf(billing)
                  IN  IF ~items.iterable THEN [issues |-> issues, raised |-> TRUE]
                      ELSE unbilled_services_loop(db, Tail(emr_records), tariffs,
                               IF has_consultation(items.list) THEN issues
                               ELSE Append(issues,
                                           no_consultation_issue(emr, billing, tariffs)))

\* PatternAnalyzer.detect_unbilled_services at time t.
detect_unbilled_services(db, tariffs, days, t, find_ok) ==
    IF ~find_ok THEN [issues |-> <<>>, raised |-> TRUE]
    ELSE unbilled_services_loop(db, emr_in_window(db, t, days), tariffs, <<>>)

MaxEmr == 2

OutOfWindow == 0 - 24 * DEFAULT_DAYS - 1

\* EMR records: of visit v1 or v2 in the window, with no visit, or of visit v1
\* before the window.
EmrRecords ==
    { [visit |-> "v1", patient |-> "p1", date |-> -3],
      [visit |-> "v2", patient |-> "p2", date |-> -2],
      [patient |-> "p3", date |-> -1],
      [visit |-> "v1", patient |-> "p1", date |-> OutOfWindow] }

EmrLists == UNION { [1..n -> EmrRecords] : n \in 0..MaxEmr }

\* What a billing of visit v1 holds as its items.
ServiceItemValues ==
    { [iterable |-> TRUE, list |-> << [itemType |-> "consultation", amount |-> 500] >>],
      [iterable |-> TRUE, list |-> << [itemType |-> "lab", amount |-> 50] >>],
      [iterable |-> TRUE, list |-> << [not_a_dict |-> TRUE] >>],
      [iterable |-> TRUE, list |-> <<>>],
      [iterable |-> FALSE] }

\* The billings collection: empty, or one billing of visit v1 dated in or
\* before the window.
ServiceBillings ==
    { <<>> } \cup
    { << [_id |-> "b1", visit |-> "v1", patient |-> "p1", billDate |-> d, items |-> v] >> :
        d \in { -1, OutOfWindow }, v \in ServiceItemValues }

ServiceInputs ==
    { [db |-> [emr |-> e, billings |-> b], tariffs |-> t] :
        e \in EmrLists, b \in ServiceBillings,
        t \in { EmptyDict, [CONSULTATION |-> 300] } }

InitUnbilledServices ==
    /\ pc = "call"
    /\ args \in ServiceInputs
    /\ retval = <<>>
    /\ IdleTrain
    /\ IdleCombine
    /\ IdlePriority
    /\ IdleAlerts

DetectUnbilledServices ==
    /\ pc = "call"
    /\ pc' = "done"
    /\ retval' = detect_unbilled_services(args.db, args.tariffs, DEFAULT_DAYS, now, TRUE).issues
    /\ UNCHANGED <<args, combineVars, prioVars, alertVars, trainVars>>

SpecUnbilledServices == InitUnbilledServices /\ [][DetectUnbilledServices]_vars

\* The EMR records of the window that name a visit.
VisitEmr == SelectSeq(emr_in_window(args.db, now, DEFAULT_DAYS),
                      LAMBDA e : "visit" \in DOMAIN e)

NoBillingInWindow == billings_in_window(args.db, now, DEFAULT_DAYS) = <<>>

\* C18 as stated: with no billing record in the window the detector returns
\* an empty list, whatever the EMR records.
C18_EmptyWithoutBillings ==
    (pc = "done" /\ NoBillingInWindow) => retval = <<>>

\* C18, amended: with no billing record in the window the detector returns
\* an empty list when no EMR record of the window names a visit; when the
\* visits have no billing at all, it returns for every EMR record of the
\* window that names a visit, in order, one issue "EMR record exists but no
\* billing found" with severity high and the consultation tariff (500 when
\* there is none) as its leakage.
C18_IssuePerUnbilledEmr ==
    (pc = "done" /\ NoBillingInWindow) =>
        /\ VisitEmr = <<>> => retval = <<>>
        /\ args.db.billings = <<>> =>
             /\ Len(retval) = Len(VisitEmr)
             /\ \A i \in 1..Len(retval) :
                  /\ retval[i].type = "unbilled-service"
                  /\ retval[i].visit_id = VisitEmr[i].visit
                  /\ retval[i].description = "EMR record exists but no billing found"
                  /\ retval[i].severity = "high"
                  /\ retval[i].leakage_amount
                       = IF "CONSULTATION" \in DOMAIN args.tariffs
                         THEN args.tariffs.CONSULTATION ELSE 500

\* C18 witness: no billing record at all, two EMR records of the window with
\* visits, and two issues returned.
C18_Witness ==
    /\ pc = "done"
    /\ args.db.billings = <<>>
    /\ Len(VisitEmr) = 2
    /\ Len(retval) = 2

-----------------------------------------------------------------------------
(* The other detectors of the rule engine *)

DEFAULT_LAB_COST == 300
DEFAULT_RADIOLOGY_COST == 500
MEDIUM_DELAY_HOURS == 48

\* The documents of a collection created in the window that satisfy a filter.
created_in_window(collection, t, days, flag, value) ==
    SelectSeq(collection,
              LAMBDA d : /\ "createdAt" \in DOMAIN d
                         /\ InWindow(d.createdAt, t, days)
                         /\ flag \in DOMAIN d
                         /\ d[flag] = value)

\* sum(safe_float(med.get('rate', 0)) * safe_int(med.get('quantity', 1))
\*     for med in medicines if isinstance(med, dict))
RECURSIVE total_medicine_value(_)
total_medicine_value(medicines) ==
    IF medicines = <<>> THEN 0
    ELSE (IF IsDict(Head(medicines))
          THEN Get(Head(medicines), "rate", 0) * Get(Head(medicines), "quantity", 1)
          ELSE 0) + total_medicine_value(Tail(medicines))

\* set(str(item.get('itemReference')) for item in billed_items
\*     if isinstance(item, dict) and item.get('itemType') == 'medicine')
billed_medicine_refs(list) ==
    { FmtGet(list[i], "itemReference") :
        i \in { j \in 1..Len(list) :
                  IsDict(list[j]) /\ Get(list[j], "itemType", "") = "medicine" } }

\* detect_unbilled_medicines: "for med in medicines" against a billing.
RECURSIVE medicines_loop(_, _, _, _, _)
medicines_loop(prescription, billing, medicines, refs, issues) ==
    IF medicines = <<>> THEN issues
    ELSE LET med == Head(medicines)
             med_id == Get(med, "medicine", "")
             medicine_value == Get(med, "rate", 0) * Get(med, "quantity", 1)
         IN  medicines_loop(prescription, billing, Tail(medicines), refs,
                 IF /\ IsDict(med)
                    /\ med_id # ""
                    /\ med_id \notin refs
                    /\ medicine_value > MIN_LEAKAGE_AMOUNT
                 THEN Append(issues,
                        [type |-> "unbilled-medicine",
                         patient_id |-> FmtGet(prescription, "patient"),
                         visit_id |-> prescription.visit,
                         bill_id |-> FmtGet(billing, "_id"),
                         prescription_id |-> FmtGet(prescription, "_id"),
                         description |-> "Dispensed medicine not found in billing",
                         service |-> "medicine",
                         medicine_id |-> med_id,
                         expected_revenue |-> medicine_value,
                         actual_revenue |-> 0,
                         leakage_amount |-> medicine_value,
                         severity |-> "medium"])
                 ELSE issues)

\* detect_unbilled_medicines: "for prescription in prescriptions".
RECURSIVE prescriptions_loop(_, _, _)
prescriptions_loop(db, prescriptions, issues) ==
    IF prescriptions = <<>> THEN [issues |-> issues, raised |-> FALSE]
    ELSE LET prescription == Head(prescriptions)
             medicines == Get(prescription, "medicines", <<>>)
             found == IF "visit" \in DOMAIN prescription
                      THEN find_one_billing(db, prescription.visit) ELSE <<>>
             total == total_medicine_value(medicines)
         IN  IF "visit" \notin DOMAIN prescription \/ medicines = <<>>
             THEN prescriptions_loop(db, Tail(prescriptions), issues)
             ELSE IF found = <<>>
             THEN prescriptions_loop(db, Tail(prescriptions),
                      IF total > 0
                      THEN Append(issues,
                             [type |-> "unbilled-medicine",
                              patient_id |-> FmtGet(prescription, "patient"),
                              visit_id |-> prescription.visit,
                              prescription_id |-> FmtGet(prescription, "_id"),
                              description |-> "Medicines dispensed but visit has no billing",
                              service |-> "medicine",
                              expected_revenue |-> total,
                              actual_revenue |-> 0,
                              leakage_amount |-> total,
                              medicine_count |-> Len(medicines),
                              severity |-> "high"])
                      ELSE issues)
             ELSE LET billing == found[1]
                      items == ItemsOf(billing)
                  IN  IF ~items.iterable THEN [issues |-> issues, raised |-> TRUE]
                      ELSE prescriptions_loop(db, Tail(prescriptions),
                               medicines_loop(prescription, billing, medicines,
                                              billed_medicine_refs(items.list), issues))

\* PatternAnalyzer.detect_unbilled_medicines at time t.
detect_unbilled_medicines(db, days, t, find_ok) ==
    IF ~find_ok THEN [issues |-> <<>>, raised |-> TRUE]
    ELSE prescriptions_loop(db,
             created_in_window(db.prescriptions, t, days, "isDispensed", TRUE), <<>>)

\* any(item.get('itemType') == kind and
\*     str(item.get('itemReference')) == str(test.get('_id'))
\*     for item in billed_items if isinstance(item, dict))
test_billed(list, kind, test) ==
    \E i \in 1..Len(list) :
        /\ IsDict(list[i])
        /\ Get(list[i], "itemType", "") = kind
        /\ FmtGet(list[i], "itemReference") = FmtGet(test, "_id")

\* detect_unbilled_lab_tests and detect_unbilled_radiology: "for test in
\* ..."; kind is the item type looked for, type the anomaly type, cost the
\* default cost of a test that has no tariff.
RECURSIVE tests_loop(_, _, _, _, _, _, _)
tests_loop(db, tests, tariffs, kind, type, cost, issues) ==
    IF tests = <<>> THEN [issues |-> issues, raised |-> FALSE]
    ELSE LET test == Head(tests)
             found == IF "visit" \in DOMAIN test
                      THEN find_one_billing(db, test.visit) ELSE <<>>
         IN  IF "visit" \notin DOMAIN test \/ found = <<>>
             THEN tests_loop(db, Tail(tests), tariffs, kind, type, cost, issues)
             ELSE LET billing == found[1]
                      items == ItemsOf(billing)
                      test_cost == Get(tariffs, FmtGet(test, "test"), cost)
                  IN  IF ~items.iterable THEN [issues |-> issues, raised |-> TRUE]
                      ELSE tests_loop(db, Tail(tests), tariffs, kind, type, cost,
                               IF test_billed(items.list, kind, test) THEN issues
                               ELSE Append(issues,
                                      [type |-> type,
                                       patient_id |-> FmtGet(test, "patient"),
                                       visit_id |-> test.visit,
                                       bill_id |-> FmtGet(billing, "_id"),
                                       test_id |-> FmtGet(test, "_id"),
                                       description |-> "Completed " \o kind
                                                         \o " test not found in billing",
                                       service |-> kind,
                                       expected_revenue |-> test_cost,
                                       actual_revenue |-> 0,
                                       leakage_amount |-> test_cost,
                                       severity |-> "medium"]))

\* PatternAnalyzer.detect_unbilled_lab_tests at time t.
detect_unbilled_lab_tests(db, tariffs, days, t, find_ok) ==
    IF ~find_ok THEN [issues |-> <<>>, raised |-> TRUE]
    ELSE tests_loop(db, created_in_window(db.lab_tests, t, days, "status", "completed"),
                    tariffs, "lab", "unbilled-lab-test", DEFAULT_LAB_COST, <<>>)

\* PatternAnalyzer.detect_unbilled_radiology at time t.
detect_unbilled_radiology(db, tariffs, days, t, find_ok) ==
    IF ~find_ok THEN [issues |-> <<>>, raised |-> TRUE]
    ELSE tests_loop(db,
                    created_in_window(db.radiology_tests, t, days, "status", "completed"),
                    tariffs, "radiology", "unbilled-radiology-test",
                    DEFAULT_RADIOLOGY_COST, <<>>)

\* detect_delayed_billing: "for emr in emr_records"; dates are hours, so that
\* delay_hours is their difference.
RECURSIVE delayed_loop(_, _, _)
delayed_loop(db, emr_records, issues) ==
    IF emr_records = <<>> THEN [issues |-> issues, raised |-> FALSE]
    ELSE LET emr == Head(emr_records)
             found == IF "visit" \in DOMAIN emr
                      THEN find_one_billing(db, emr.visit) ELSE <<>>
         IN  IF "visit" \notin DOMAIN emr \/ found = <<>>
             THEN delayed_loop(db, Tail(emr_records), issues)
             ELSE LET billing == found[1]
                      has_date == "billDate" \in DOMAIN billing
                                    \/ "createdAt" \in DOMAIN billing
                      bill_date == IF "billDate" \in DOMAIN billing
                                   THEN billing.billDate ELSE billing.createdAt
                      delay_hours == bill_date - emr.date
                  IN  delayed_loop(db, Tail(emr_records),
                          IF has_date /\ delay_hours > BILLING_DELAY_HOURS
                          THEN Append(issues,
                                 [type |-> "unusual-pattern",
                                  patient_id |-> FmtGet(emr, "patient"),
                                  visit_id |-> emr.visit,
                                  bill_id |-> FmtGet(billing, "_id"),
                                  description |-> "Billing delayed by "
                                                    \o ToString(delay_hours) \o " hours",
                                  service |-> "billing",
                                  delay_hours |-> delay_hours,
                                  emr_date |-> ToString(emr.date),
                                  bill_date |-> ToString(bill_date),
                                  severity |-> IF delay_hours < MEDIUM_DELAY_HOURS
                                               THEN "low" ELSE "medium"])
                          ELSE issues)

\* PatternAnalyzer.detect_delayed_billing at time t.
detect_delayed_billing(db, days, t, find_ok) ==
    IF ~find_ok THEN [issues |-> <<>>, raised |-> TRUE]
    ELSE delayed_loop(db, emr_in_window(db, t, days), <<>>)

-----------------------------------------------------------------------------
(* analyze_all_patterns.  env gives, for each detector, whether the find   *)
(* that opens it returns (TRUE) or raises (FALSE).                          *)

DetectorNames ==
    << "unbilled_services", "unbilled_medicines", "unbilled_lab_tests",
       "unbilled_radiology", "price_mismatches", "duplicate_billings",
       "delayed_billing" >>

\* The call of one detector by analyze_all_patterns.
run_detector(name, db, tariffs, days, t, env) ==
    CASE name = "unbilled_services" ->
           detect_unbilled_services(db, tariffs, days, t, env[name])
      [] name = "unbilled_medicines" ->
           detect_unbilled_medicines(db, days, t, env[name])
      [] name = "unbilled_lab_tests" ->
           detect_unbilled_lab_tests(db, tariffs, days, t, env[name])
      [] name = "unbilled_radiology" ->
           detect_unbilled_radiology(db, tariffs, days, t, env[name])
      [] name = "price_mismatches" ->
           detect_price_mismatches(db, tariffs, days, t, env[name])
      [] name = "duplicate_billings" ->
           detect_duplicate_billings(db, days, t, env[name])
      [] name = "delayed_billing" ->
           detect_delayed_billing(db, days, t, env[name])

\* A slip in which the failure of a detector ends the analysis: the detectors
\* after it are not run.
RECURSIVE analyze_loop_aborts(_, _, _, _, _, _, _)
analyze_loop_aborts(names, db, tariffs, days, t, env, all_issues) ==
    IF names = <<>> THEN all_issues
    ELSE LET r == run_detector(Head(names), db, tariffs, days, t, env)
         IN  IF r.raised THEN all_issues \o r.issues
             ELSE analyze_loop_aborts(Tail(names), db, tariffs, days, t, env,
                                      all_issues \o r.issues)

\* analyze_all_patterns: all_issues.extend(...) for each detector in turn.
RECURSIVE analyze_loop(_, _, _, _, _, _, _)
analyze_loop(names, db, tariffs, days, t, env, all_issues) ==
    IF names = <<>> THEN all_issues
    ELSE analyze_loop(Tail(names), db, tariffs, days, t, env,
                      all_issues \o run_detector(Head(names), db, tariffs, days, t, env).issues)

\* PatternAnalyzer.analyze_all_patterns at time t.
analyze_all_patterns(db, tariffs, days, t, env) ==
    analyze_loop(DetectorNames, db, tariffs, days, t, env, <<>>)

\* Every find returns.
AllFindsOk == [n \in Range(DetectorNames) |-> TRUE]

\* No find fails, or the find of one detector fails.
FindOutcomes ==
    { AllFindsOk } \cup
    { [AllFindsOk EXCEPT ![n] = FALSE] : n \in Range(DetectorNames) }

\* EMR records of visits v1 and v2.
Emr1 == [visit |-> "v1", patient |-> "p1", date |-> -30]
Emr2 == [visit |-> "v2", patient |-> "p2", date |-> -2]

\* The billing of visit v1 with the given items, and the billing of visit v2,
\* which bills its consultation only.
Billing1(items) ==
    [_id |-> "b1", visit |-> "v1", patient |-> "p1", billDate |-> -1, items |-> items]
Billing2 ==
    [_id |-> "b2", visit |-> "v2", patient |-> "p2", billDate |-> -2,
     items |-> [iterable |-> TRUE,
                list |-> << [itemType |-> "consultation", amount |-> 500] >>]]

\* The items of the billing of v1: a consultation; a lab item billed twice
\* and an underpriced item; or a value that cannot be iterated.
AnalyzeItemValues ==
    { [iterable |-> TRUE, list |-> << [itemType |-> "consultation", amount |-> 500] >>],
      [iterable |-> TRUE,
       list |-> << [itemType |-> "lab", itemReference |-> "l1", amount |-> 10],
                   [itemType |-> "lab", itemReference |-> "l1", amount |-> 10],
                   [itemType |-> "medicine", itemCode |-> "LAB001", rate |-> 60,
                    quantity |-> 6] >>],
      [iterable |-> FALSE] }

AnalyzeBillings ==
    { <<>> } \cup
    UNION { { <<Billing1(v)>>, <<Billing2, Billing1(v)>>, <<Billing1(v), Billing2>> } :
              v \in AnalyzeItemValues }

Prescription(id, visit) ==
    [_id |-> id, visit |-> visit, patient |-> "p", createdAt |-> -2, isDispensed |-> TRUE,
     medicines |-> << [medicine |-> "m1", rate |-> 60, quantity |-> 2] >>]

LabTest(id, visit) ==
    [_id |-> id, visit |-> visit, patient |-> "p", test |-> "LAB001",
     createdAt |-> -2, status |-> "completed"]

AnalyzeDatabases ==
    { [emr |-> e, billings |-> b, prescriptions |-> p, lab_tests |-> l,
       radiology_tests |-> r] :
        e \in { <<>>, <<Emr1>>, <<Emr1, Emr2>>, <<Emr2, Emr1>> },
        b \in AnalyzeBillings,
        p \in { <<>>, <<Prescription("p2", "v2"), Prescription("p1", "v1")>> },
        l \in { <<>>, <<LabTest("l2", "v2"), LabTest("l1", "v1")>> },
        r \in { <<>>, <<LabTest("r2", "v2"), LabTest("r1", "v1")>> } }

AnalyzeInputs ==
    { [db |-> db, tariffs |-> [LAB001 |-> 100], env |-> env] :
        db \in AnalyzeDatabases, env \in FindOutcomes }

InitAnalyze ==
    /\ pc = "call"
    /\ args \in AnalyzeInputs
    /\ retval = <<>>
    /\ IdleTrain
    /\ IdleCombine
    /\ IdlePriority
    /\ IdleAlerts

AnalyzeAllPatterns ==
    /\ pc = "call"
    /\ pc' = "done"
    /\ retval' = analyze_all_patterns(args.db, args.tariffs, DEFAULT_DAYS, now, args.env)
    /\ UNCHANGED <<args, combineVars, prioVars, alertVars, trainVars>>

SpecAnalyze == InitAnalyze /\ [][AnalyzeAllPatterns]_vars

\* What detector k returns in the analysis under check.
Part(k) == run_detector(DetectorNames[k], args.db, args.tariffs, DEFAULT_DAYS, now, args.env)

\* The database with every unreadable items value replaced by an empty list.
Repaired(db) ==
    [db EXCEPT !.billings =
        [i \in 1..Len(db.billings) |->
            IF ItemsOf(db.billings[i]).iterable THEN db.billings[i]
            ELSE [db.billings[i] EXCEPT !.items = [iterable |-> TRUE, list |-> <<>>]]]]

\* What detector k returns on the repaired database when its find returns.
Unfailing(k) ==
    run_detector(DetectorNames[k], Repaired(args.db), args.tariffs, DEFAULT_DAYS, now,
                 AllFindsOk)

RECURSIVE Concat(_)
Concat(seqs) == IF seqs = <<>> THEN <<>> ELSE Head(seqs) \o Concat(Tail(seqs))

\* C14 as stated: the result is the concatenation, in detector order, of the
\* results of the seven detectors, a detector that failed contributing an
\* empty list.
C14_FailedDetectorContributesNothing ==
    pc = "done" =>
        retval = Concat([k \in 1..7 |-> IF Part(k).raised THEN <<>> ELSE Part(k).issues])

\* C14, amended: the result is the concatenation, in detector order, of what
\* the seven detectors return; a detector that did not fail returns what it
\* returns when no detector fails; a detector that failed returns the issues
\* it had collected before the failure: a prefix of what it returns when
\* nothing fails, empty when its first find failed.
C14_FailedDetectorContributesPrefix ==
    pc = "done" =>
        /\ retval = Concat([k \in 1..7 |-> Part(k).issues])
        /\ \A k \in 1..7 :
             /\ IsPrefix(Part(k).issues, Unfailing(k).issues)
             /\ ~Part(k).raised =>
                  Part(k).issues
                    = run_detector(DetectorNames[k], args.db, args.tariffs, DEFAULT_DAYS,
                                   now, AllFindsOk).issues
             /\ ~args.env[DetectorNames[k]] => Part(k).issues = <<>>

\* C14 witness: a detector failed after it had collected an issue, and a
\* detector after it contributed an issue as well.
C14_Witness ==
    /\ pc = "done"
    /\ \E k \in 1..6 :
         /\ Part(k).raised
         /\ Part(k).issues # <<>>
         /\ \E j \in (k + 1)..7 : ~Part(j).raised /\ Part(j).issues # <<>>

-----------------------------------------------------------------------------
(* DataProcessor.  A DataFrame is the sequence of its rows, each a dict;   *)
(* an empty DataFrame is the empty sequence.  A row of the billing frame   *)
(* has got the items of its document, or, when its document has none while *)
(* another document of the frame has, the NaN that pandas fills in, which   *)
(* like null is [iterable |-> FALSE].  The scalar fields are taken present  *)
(* in every document.  A ratio is the fraction [num, den] it is the         *)
(* quotient of.  A result is [raised, ...]: raised says that an exception   *)
(* leaves the method.                                                       *)

LOOKBACK_DAYS == 90

FEATURE_COLUMNS ==
    << "total_services", "total_billed_amount", "total_expected_amount",
       "billing_delay_hours", "unbilled_items_count", "price_variance_ratio",
       "payment_completion_ratio", "discount_ratio", "visit_duration_hours",
       "items_per_visit" >>

Ratio(num, den) == [num |-> num, den |-> den]

\* pd.DataFrame(billings): a column of some document is a column of every row.
to_dataframe(docs) ==
    LET has_items == \E i \in 1..Len(docs) : "items" \in DOMAIN docs[i]
    IN  [i \in 1..Len(docs) |->
            IF has_items /\ "items" \notin DOMAIN docs[i]
            THEN SetKey(docs[i], "items", [iterable |-> FALSE])
            ELSE docs[i]]

\* DataProcessor.fetch_billing_data(start_date, end_date) with end_date = t
\* and start_date = t - days; find_ok is whether db.billings.find returns.
fetch_billing_data(db, days, t, find_ok) ==
    IF ~find_ok THEN <<>>
    ELSE to_dataframe(billings_in_window(db, t, days))

\* DataProcessor.fetch_tariffs: "for tariff in tariffs".
RECURSIVE tariffs_loop(_, _)
tariffs_loop(docs, tariff_dict) ==
    IF docs = <<>> THEN tariff_dict
    ELSE LET tariff == Head(docs)
             service_code == Get(tariff, "serviceCode", Get(tariff, "itemCode", ""))
             price == Get(tariff, "rate", Get(tariff, "price", 0))
         IN  tariffs_loop(Tail(docs),
                          IF service_code # "" THEN SetKey(tariff_dict, service_code, price)
                          ELSE tariff_dict)

\* DataProcessor.fetch_tariffs.
fetch_tariffs(db, find_ok) ==
    IF ~find_ok THEN EmptyDict ELSE tariffs_loop(db.tariffs, EmptyDict)

\* sum(safe_float(item.get('rate', 0)) * safe_int(item.get('quantity', 1))
\*     for item in items if isinstance(item, dict))
RECURSIVE total_expected_of(_)
total_expected_of(list) ==
    IF list = <<>> THEN 0
    ELSE (IF IsDict(Head(list))
          THEN Get(Head(list), "rate", 0) * Get(Head(list), "quantity", 1) ELSE 0)
         + total_expected_of(Tail(list))

\* sum(1 for item in items
\*     if isinstance(item, dict) and not item.get('isBilled', True))
unbilled_count_of(list) ==
    Cardinality({ i \in 1..Len(list) :
                    IsDict(list[i]) /\ ~Get(list[i], "isBilled", TRUE) })

\* prepare_visit_data: the dict appended for a billing whose items are a list.
visit_record(billing, list) ==
    LET total_services == Len(list)
        total_billed == Get(billing, "grandTotal", 0)
        total_expected == total_expected_of(list)
        has_dates == "billDate" \in DOMAIN billing
        created_date == Get(billing, "createdAt", Get(billing, "billDate", 0))
    IN  [visit_id |-> Get(billing, "visit", FmtGet(billing, "_id")),
         patient_id |-> Get(billing, "patient", ""),
         bill_id |-> Get(billing, "_id", ""),
         visit_type |-> Get(billing, "visitType", "unknown"),
         bill_date |-> GetOpt(billing, "billDate"),
         total_services |-> total_services,
         total_billed_amount |-> total_billed,
         total_expected_amount |-> total_expected,
         billing_delay_hours |-> IF has_dates THEN billing.billDate - created_date ELSE 0,
         unbilled_items_count |-> unbilled_count_of(list),
         price_variance_ratio |-> IF total_expected > 0
                                  THEN Ratio(Abs(total_billed - total_expected),
                                             total_expected)
                                  ELSE Ratio(0, 1),
         payment_completion_ratio |-> IF total_billed > 0
                                      THEN Ratio(Get(billing, "paidAmount", 0), total_billed)
                                      ELSE Ratio(0, 1),
         discount_ratio |-> IF total_billed > 0
                            THEN Ratio(Get(billing, "totalDiscount", 0), total_billed)
                            ELSE Ratio(0, 1),
         visit_duration_hours |-> 0,
         items_per_visit |-> total_services]

\* prepare_visit_data: "for _, billing in billings_df.iterrows()";
\* len(items) raises on items that are no list, and nothing catches it.
RECURSIVE prepare_loop(_, _)
prepare_loop(rows, visit_data) ==
    IF rows = <<>> THEN [raised |-> FALSE, visit_df |-> visit_data]
    ELSE LET billing == Head(rows)
             items == ItemsOf(billing)
         IN  IF ~items.iterable THEN [raised |-> TRUE, visit_df |-> <<>>]
             ELSE prepare_loop(Tail(rows),
                               Append(visit_data, visit_record(billing, items.list)))

\* DataProcessor.prepare_visit_data.
prepare_visit_data(billings_df) ==
    IF billings_df = <<>> THEN [raised |-> FALSE, visit_df |-> <<>>]
    ELSE prepare_loop(billings_df, <<>>)

\* DataFrame.empty: the frame has no row or no column.
IsEmptyFrame(df) == df = <<>> \/ DOMAIN df[1] = {}

\* A slip in which only the feature columns the frame has are projected.
extract_features_present_only(visit_df) ==
    IF IsEmptyFrame(visit_df) THEN <<>>
    ELSE LET present == SelectSeq(FEATURE_COLUMNS, LAMBDA col : col \in DOMAIN visit_df[1])
         IN  [i \in 1..Len(visit_df) |->
                 [c \in 1..Len(present) |-> visit_df[i][present[c]]]]

\* DataProcessor.extract_features: np.array([]) for an empty frame, which is
\* the empty sequence here; otherwise the rows of the feature columns, a
\* column the frame has not got being filled with 0.
extract_features(visit_df) ==
    IF IsEmptyFrame(visit_df) THEN <<>>
    ELSE [i \in 1..Len(visit_df) |->
             [c \in 1..Len(FEATURE_COLUMNS) |->
                 IF FEATURE_COLUMNS[c] \in DOMAIN visit_df[i]
                 THEN visit_df[i][FEATURE_COLUMNS[c]] ELSE 0]]

\* ndarray.shape of what extract_features returns: np.array([]) has the one
\* dimension (0,), a matrix has (rows, columns).
shape(features) ==
    IF features = <<>> THEN <<0>> ELSE <<Len(features), Len(features[1])>>

\* The rest of get_training_data and get_detection_data after the fetch.
prepared_data(billings_df) ==
    LET prepared == prepare_visit_data(billings_df)
    IN  IF billings_df = <<>> \/ prepared.raised \/ prepared.visit_df = <<>>
        THEN [raised |-> billings_df # <<>> /\ prepared.raised,
              features |-> <<>>, visit_df |-> <<>>]
        ELSE [raised |-> FALSE,
              features |-> extract_features(prepared.visit_df),
              visit_df |-> prepared.visit_df]

\* DataProcessor.get_training_data at time t.
get_training_data(db, t, find_ok) ==
    prepared_data(fetch_billing_data(db, LOOKBACK_DAYS, t, find_ok))

\* DataProcessor.get_detection_data(days) at time t.
get_detection_data(db, days, t, find_ok) ==
    prepared_data(fetch_billing_data(db, days, t, find_ok))

MaxBillings == 2

\* The scalar fields of a billing document.
BillingFields(id, visit, date) ==
    [_id |-> id, visit |-> visit, patient |-> "p1", billDate |-> date,
     createdAt |-> date - 4, grandTotal |-> 100, paidAmount |-> 50, totalDiscount |-> 10]

\* Billing documents: with two items, one of them marked unbilled; with an
\* element that is no dict; with no items field; with items null; with no
\* items and dated before the detection window; dated before the lookback.
BillingDocs ==
    { BillingFields("b1", "v1", -1) @@
        [items |-> [iterable |-> TRUE,
                    list |-> << [rate |-> 60, quantity |-> 2, isBilled |-> FALSE],
                                [rate |-> 10] >>]],
      BillingFields("b2", "v2", -2) @@
        [items |-> [iterable |-> TRUE, list |-> << [not_a_dict |-> TRUE] >>]],
      BillingFields("b3", "v3", -3),
      BillingFields("b4", "v4", -4) @@ [items |-> [iterable |-> FALSE]],
      BillingFields("b5", "v5", 0 - 24 * 30) @@ [items |-> [iterable |-> TRUE, list |-> <<>>]],
      BillingFields("b6", "v6", 0 - 24 * 100) }

BillingDocLists == UNION { [1..n -> BillingDocs] : n \in 0..MaxBillings }

TariffDocLists ==
    { <<>>,
      << [serviceCode |-> "LAB001", rate |-> 100], [itemCode |-> "XRAY9", price |-> 50],
         [rate |-> 5] >> }

ProcessorInputs ==
    { [db |-> [billings |-> b, tariffs |-> tf], find_ok |-> ok] :
        b \in BillingDocLists, tf \in TariffDocLists, ok \in BOOLEAN }

InitProcessor ==
    /\ pc = "call"
    /\ args \in ProcessorInputs
    /\ retval = <<>>
    /\ IdleTrain
    /\ IdleCombine
    /\ IdlePriority
    /\ IdleAlerts

FetchBillingData ==
    /\ pc = "call"
    /\ pc' = "done"
    /\ retval' = [op |-> "fetch_billing_data", raised |-> FALSE,
                  df |-> fetch_billing_data(args.db, LOOKBACK_DAYS, now, args.find_ok)]
    /\ UNCHANGED <<args, combineVars, prioVars, alertVars, trainVars>>

FetchTariffs ==
    /\ pc = "call"
    /\ pc' = "done"
    /\ retval' = [op |-> "fetch_tariffs", raised |-> FALSE,
                  tariffs |-> fetch_tariffs(args.db, args.find_ok)]
    /\ UNCHANGED <<args, combineVars, prioVars, alertVars, trainVars>>

PrepareVisitData ==
    /\ pc = "call"
    /\ pc' = "done"
    /\ retval' = [op |-> "prepare_visit_data"]
                   @@ prepare_visit_data(to_dataframe(args.db.billings))
    /\ UNCHANGED <<args, combineVars, prioVars, alertVars, trainVars>>

GetTrainingData ==
    /\ pc = "call"
    /\ pc' = "done"
    /\ retval' = [op |-> "get_training_data"]
                   @@ get_training_data(args.db, now, args.find_ok)
    /\ UNCHANGED <<args, combineVars, prioVars, alertVars, trainVars>>

GetDetectionData ==
    /\ pc = "call"
    /\ pc' = "done"
    /\ retval' = [op |-> "get_detection_data"]
                   @@ get_detection_data(args.db, DEFAULT_DAYS, now, args.find_ok)
    /\ UNCHANGED <<args, combineVars, prioVars, alertVars, trainVars>>

NextProcessor ==
    \/ FetchBillingData
    \/ FetchTariffs
    \/ PrepareVisitData
    \/ GetTrainingData
    \/ GetDetectionData

SpecProcessor == InitProcessor /\ [][NextProcessor]_vars

\* C15: no fetch or prepare operation of the DataProcessor raises to its
\* caller; when a find fails, the fetch returns an empty result.
C15_NoOperationRaises ==
    pc = "done" =>
        /\ ~retval.raised
        /\ (retval.op = "fetch_billing_data" /\ ~args.find_ok) => retval.df = <<>>
        /\ (retval.op = "fetch_tariffs" /\ ~args.find_ok) => retval.tariffs = EmptyDict

\* The failure: get_detection_data has raised on a frame of two billings of
\* the window, the first with a list of items and the second with no items.
C15_PrepareRaises ==
    /\ pc = "done"
    /\ retval.op = "get_detection_data"
    /\ retval.raised
    /\ Len(args.db.billings) = 2
    /\ "items" \notin DOMAIN args.db.billings[2]

-----------------------------------------------------------------------------
(* The detection run: POST /ml/revenue/detect.  args holds the database    *)
(* and the tariff table the analyzer has loaded.                           *)

MaxStored == 3

\* for anomaly in ml_anomalies: anomaly['type'] = 'unusual-pattern'
RECURSIVE stamp_type(_)
stamp_type(anomalies) ==
    IF anomalies = <<>> THEN <<>>
    ELSE <<SetKey(Head(anomalies), "type", "unusual-pattern")>> \o stamp_type(Tail(anomalies))

\* The visits of the rows of a visit frame.
visit_ids(visit_df) == [i \in 1..Len(visit_df) |-> visit_df[i].visit_id]

\* The ML branch of detect_anomalies: [raised, called, anomalies]; called is
\* whether get_anomaly_details, and with it detect, is called.  rows are the
\* labels and scores the model gives to the rows of the matrix.
ml_detection(s, db, req, t, out) ==
    IF ~req.include_ml \/ ~s.is_trained
    THEN [raised |-> FALSE, called |-> FALSE, anomalies |-> <<>>]
    ELSE LET data == get_detection_data(db, req.days, t, out.find_ok)
         IN  IF data.raised THEN [raised |-> TRUE, called |-> FALSE, anomalies |-> <<>>]
             ELSE IF data.features = <<>>
             THEN [raised |-> FALSE, called |-> FALSE, anomalies |-> <<>>]
             ELSE [raised |-> FALSE, called |-> TRUE,
                   anomalies |->
                     stamp_type(get_anomaly_details(
                         s, [i \in 1..Len(data.features) |-> out.rows[i]],
                         visit_ids(data.visit_df), out.predict_ok))]

\* A slip in which a run without ML anomalies does not look at the rules.
detect_anomalies_rules_need_ml(s, store, db, tariffs, req, t, out) ==
    LET ml == ml_detection(s, db, req, t, out)
        rule_issues == IF req.include_rules /\ ml.anomalies # <<>>
                          THEN analyze_all_patterns(db, tariffs, req.days, t, out.env)
                          ELSE <<>>
        merged == combine_anomalies(ml.anomalies, rule_issues)
        batch == create_alerts_batch(store, merged, t,
                                     [i \in 1..Len(merged) |-> out.insert_ok])
    IN  IF ml.raised THEN [store |-> store, answer |-> [code |-> 500]]
        ELSE [store |-> IF req.create_alerts /\ merged # <<>> THEN batch.store ELSE store,
              answer |-> [code |-> 200,
                          scan_parameters |-> [days |-> req.days,
                                               include_ml |-> req.include_ml,
                                               include_rules |-> req.include_rules],
                          total_anomalies |-> Len(merged),
                          ml_anomalies |-> Len(ml.anomalies),
                          rule_anomalies |-> Len(rule_issues),
                          alerts_created |-> IF req.create_alerts /\ merged # <<>>
                                             THEN batch.summary.created ELSE 0]]

\* A slip in which the alerts are created from the lists as detected, not
\* from the merged list.
detect_anomalies_stores_unmerged(s, store, db, tariffs, req, t, out) ==
    LET ml == ml_detection(s, db, req, t, out)
        rule_issues == IF req.include_rules
                          THEN analyze_all_patterns(db, tariffs, req.days, t, out.env)
                          ELSE <<>>
        merged == combine_anomalies(ml.anomalies, rule_issues)
        batch == create_alerts_batch(store, ml.anomalies \o rule_issues, t,
                                     [i \in 1..(Len(ml.anomalies) + Len(rule_issues))
                                        |-> out.insert_ok])
    IN  IF ml.raised THEN [store |-> store, answer |-> [code |-> 500]]
        ELSE [store |-> IF req.create_alerts /\ merged # <<>> THEN batch.store ELSE store,
              answer |-> [code |-> 200,
                          scan_parameters |-> [days |-> req.days,
                                               include_ml |-> req.include_ml,
                                               include_rules |-> req.include_rules],
                          total_anomalies |-> Len(merged),
                          ml_anomalies |-> Len(ml.anomalies),
                          rule_anomalies |-> Len(rule_issues),
                          alerts_created |-> IF req.create_alerts /\ merged # <<>>
                                             THEN batch.summary.created ELSE 0]]

\* detect_anomalies at time t on the detector state s and the alert store.
detect_anomalies(s, store, db, tariffs, req, t, out) ==
    LET ml == ml_detection(s, db, req, t, out)
        rule_issues == IF req.include_rules
                          THEN analyze_all_patterns(db, tariffs, req.days, t, out.env)
                          ELSE <<>>
        merged == combine_anomalies(ml.anomalies, rule_issues)
        batch == create_alerts_batch(store, merged, t,
                                     [i \in 1..Len(merged) |-> out.insert_ok])
    IN  IF ml.raised THEN [store |-> store, answer |-> [code |-> 500]]
        ELSE [store |-> IF req.create_alerts /\ merged # <<>> THEN batch.store ELSE store,
              answer |-> [code |-> 200,
                          scan_parameters |-> [days |-> req.days,
                                               include_ml |-> req.include_ml,
                                               include_rules |-> req.include_rules],
                          total_anomalies |-> Len(merged),
                          ml_anomalies |-> Len(ml.anomalies),
                          rule_anomalies |-> Len(rule_issues),
                          alerts_created |-> IF req.create_alerts /\ merged # <<>>
                                             THEN batch.summary.created ELSE 0]]

\* Requests.
DetectRequests ==
    [days : {DEFAULT_DAYS}, include_rules : BOOLEAN, include_ml : BOOLEAN,
     create_alerts : BOOLEAN]

\* What the calls of a run do: the fetch of the processor, the model on at
\* most MaxBillings rows (all of them anomalous, or all normal), the finds of
\* the analyzer, the inserts.
RunOutcomes ==
    [find_ok : BOOLEAN,
     rows : { [i \in 1..MaxBillings |-> [pred |-> -1, score |-> 0 - i]],
              [i \in 1..MaxBillings |-> [pred |-> 1, score |-> -1]] },
     predict_ok : BOOLEAN, env : {AllFindsOk}, insert_ok : BOOLEAN]

\* The billings of a run: none; one of visit v1 before the window; one of
\* visit v1 in the window, with a lab item billed three times (two issues of
\* one key); one of visit v1 in the window and a billing with no items.
RunBillings ==
    { <<>>,
      << BillingFields("b5", "v1", 0 - 24 * 30) @@
           [items |-> [iterable |-> TRUE,
                       list |-> << [itemType |-> "consultation", amount |-> 500] >>]] >>,
      << BillingFields("b1", "v1", -1) @@
           [items |-> [iterable |-> TRUE,
                       list |-> << [itemType |-> "lab", itemReference |-> "l1", rate |-> 10],
                                   [itemType |-> "lab", itemReference |-> "l1", rate |-> 10],
                                   [itemType |-> "lab", itemReference |-> "l1", rate |-> 10] >>]] >>,
      << BillingFields("b1", "v1", -1) @@
           [items |-> [iterable |-> TRUE,
                       list |-> << [itemType |-> "consultation", amount |-> 500] >>]],
         BillingFields("b3", "v2", -3) >> }

RunDatabases ==
    { [emr |-> e, billings |-> b, prescriptions |-> p, lab_tests |-> <<>>,
       radiology_tests |-> <<>>] :
        e \in { <<>>, <<Emr2>>, <<Emr1, Emr2>> },
        b \in RunBillings,
        p \in { <<>>, <<Prescription("p2", "v2")>> } }

InitDetection ==
    /\ pc = "done"
    /\ args \in { [db |-> db, tariffs |-> [LAB001 |-> 100]] : db \in RunDatabases }
    /\ retval = <<>>
    /\ IdleCombine
    /\ IdlePriority
    /\ IdleAlerts
    /\ \E trained \in BOOLEAN :
         /\ model = IF trained THEN Some([id |-> 0, fitted |-> TRUE]) ELSE None
         /\ is_trained = trained
         /\ normalization_params = IF trained
                                   THEN [mean_std_of |-> MIN_SAMPLES_FOR_TRAINING]
                                   ELSE EmptyDict
         /\ model_file = IF trained
                         THEN Some([model |-> model, normalization_params |-> normalization_params])
                         ELSE None
    /\ training_history = <<>>
    /\ history_file = None
    /\ fits = 0
    /\ log = <<>>
    /\ ret = [op |-> "none"]

\* One request POST /ml/revenue/detect.
DetectionRunCall(req, out) ==
    LET r == detect_anomalies(TrainState, ai_anomalies, args.db, args.tariffs, req, now, out)
    IN  /\ Cardinality(DOMAIN r.store) <= MaxStored
        /\ ai_anomalies' = r.store
        /\ response' = [op |-> "detect_anomalies"] @@ r.answer
        /\ UNCHANGED <<now, args, retval, pc, combineVars, prioVars, trainVars>>

DetectionRun == \E req \in DetectRequests, out \in RunOutcomes : DetectionRunCall(req, out)

SpecDetection == InitDetection /\ [][DetectionRun]_vars

\* The detection-data fetch of a run returns no billing record.
EmptyDetectionFetch(out) ==
    fetch_billing_data(args.db, DEFAULT_DAYS, now, out.find_ok) = <<>>

\* The keys of the issues the rule engine reports in a run.
RuleKeys(req, out) ==
    IF req.include_rules
    THEN { rule_key(x) :
             x \in Range(analyze_all_patterns(args.db, args.tariffs, req.days, now, out.env)) }
    ELSE {}

\* C19 as stated: a run on a trained model whose detection-data fetch returns
\* no billing record creates no alert, and detect on the empty matrix
\* returns no label and no score.
C19_EmptyFetchCreatesNoAlert ==
    [][\A req \in DetectRequests, out \in RunOutcomes :
         (response'.op = "detect_anomalies" /\ is_trained /\ req.include_ml
            /\ response'.code = 200
            /\ req.include_rules = response'.scan_parameters.include_rules
            /\ EmptyDetectionFetch(out) /\ DetectionRunCall(req, out)) =>
           /\ detect(TrainState, 0, out.predict_ok) = 0
           /\ response'.alerts_created = 0]_vars

\* C19, amended: in such a run detect on the empty matrix returns no label
\* and no score, the ML path contributes no anomaly, and the alerts created
\* are those of the rule engine's issues: one per (visit, type) key of them
\* when alerts are to be created and the inserts succeed, none otherwise, and
\* so none when the rule engine reports nothing.
C19_EmptyFetchLeavesRuleAlerts ==
    [][\A req \in DetectRequests, out \in RunOutcomes :
         (response'.op = "detect_anomalies" /\ is_trained /\ req.include_ml
            /\ response'.code = 200
            /\ req.include_rules = response'.scan_parameters.include_rules
            /\ EmptyDetectionFetch(out) /\ DetectionRunCall(req, out)) =>
           /\ detect(TrainState, 0, out.predict_ok) = 0
           /\ response'.code = 200
           /\ response'.ml_anomalies = 0
           /\ response'.alerts_created
                = IF req.create_alerts /\ out.insert_ok
                  THEN Cardinality(RuleKeys(req, out)) ELSE 0
           /\ Cardinality(DOMAIN ai_anomalies')
                = Cardinality(DOMAIN ai_anomalies) + response'.alerts_created]_vars

\* C19 witness: a trained detector, no billing in the window, and a run that
\* has found no ML anomaly and has created an alert.
C19_Witness ==
    /\ is_trained
    /\ billings_in_window(args.db, now, DEFAULT_DAYS) = <<>>
    /\ response.op = "detect_anomalies"
    /\ response.code = 200
    /\ response.ml_anomalies = 0
    /\ response.alerts_created > 0

-----------------------------------------------------------------------------
(* The training history over many runs of one trainer *)

MaxTrainings == 12

\* The history file an earlier process has left: two records.
OldHistory ==
    << [timestamp |-> -1, n_samples |-> MIN_SAMPLES_FOR_TRAINING,
        metrics |-> [success |-> TRUE, n_samples |-> MIN_SAMPLES_FOR_TRAINING],
        validation |-> [valid |-> TRUE]],
       [timestamp |-> 0, n_samples |-> MIN_SAMPLES_FOR_TRAINING,
        metrics |-> [success |-> TRUE, n_samples |-> MIN_SAMPLES_FOR_TRAINING],
        validation |-> [valid |-> TRUE]] >>

\* The outcomes of a run: all goes well; the history file cannot be written;
\* there are too few samples.
HistoryEnvs ==
    { DefaultEnv,
      [DefaultEnv EXCEPT !.history_ok = FALSE],
      [DefaultEnv EXCEPT !.rows = MIN_SAMPLES_FOR_TRAINING - 1] }

\* ModelTrainer.__init__ in a process that has no model yet: the history is
\* empty, whatever history file an earlier process has left.
InitHistory ==
    /\ model = None
    /\ is_trained = FALSE
    /\ normalization_params = EmptyDict
    /\ model_file = None
    /\ training_history = <<>>
    /\ history_file \in {None, Some(OldHistory)}
    /\ fits = 0
    /\ log = <<>>
    /\ ret = [op |-> "none"]
    /\ pc = "done"
    /\ IdleCombine
    /\ IdlePriority
    /\ IdleAlerts
    /\ IdleCall

\* One training run, up to MaxTrainings fits.
TrainRun ==
    /\ \E force_retrain \in BOOLEAN, env \in HistoryEnvs :
         LET t == trainer_train(TrainState, force_retrain, env)
         IN  /\ t.fits <= MaxTrainings
             /\ SetTrainState(t)
    /\ UNCHANGED <<combineVars, prioVars, alertVars, callVars, pc>>

SpecHistory == InitHistory /\ [][TrainRun]_vars

\* C20 as stated: once a run has been recorded, the history file holds the
\* last 10 (or all, if fewer) of the records of the runs, in order.
C20_FileHoldsLastTen ==
    training_history # <<>> => history_file = Some(LastN(training_history, 10))

\* C20, amended: the history file never holds more than 10 entries; what it
\* holds is what an earlier process has left, or the last 10 (or all, if
\* fewer) of the records of the runs completed up to some write, in order; a
\* run that writes the file leaves in it the last 10 (or all) of the records
\* up to its own, and keeps a suffix of what the file held, so that entries
\* go from the oldest end only; a run that does not write it leaves it as it
\* was.
C20_FileHoldsLastTenAtLastWrite ==
    /\ [](history_file # None =>
            /\ Len(history_file[1]) <= 10
            /\ \/ history_file[1] = OldHistory
               \/ \E j \in 1..Len(training_history) :
                    history_file[1] = LastN(SubSeq(training_history, 1, j), 10))
    /\ [][IF "SavedHistory" \in Range(log')
          THEN /\ history_file' = Some(LastN(training_history', 10))
               /\ history_file # None =>
                    \E k \in 0..Len(history_file[1]) :
                       IsPrefix(SubSeq(history_file[1], k + 1, Len(history_file[1])),
                                history_file'[1])
          ELSE history_file' = history_file]_vars

\* C20 witness: more than 10 runs are recorded and the file holds the last 10.
C20_Witness ==
    /\ Len(training_history) > 10
    /\ history_file = Some(LastN(training_history, 10))
    /\ history_file[1][1].timestamp = Len(training_history) - 9

-----------------------------------------------------------------------------
(* Price mismatch: the condition under which an item is flagged *)

\* The issue the detector is to return for the billed item: its code is in
\* the tariff table with a positive tariff, the variance exceeds the threshold
\* and the shortfall times the quantity exceeds the minimum leakage.
IsMismatch(item, tariffs) ==
    \E code \in DOMAIN tariffs :
        /\ \/ ("itemCode" \in DOMAIN item /\ item.itemCode = code)
           \/ ("itemCode" \notin DOMAIN item /\ "serviceCode" \in DOMAIN item
                  /\ item.serviceCode = code)
        /\ tariffs[code] > 0
        /\ LET charged == IF "rate" \in DOMAIN item THEN item.rate ELSE 0
               quantity == IF "quantity" \in DOMAIN item THEN item.quantity ELSE 1
               shortfall == IF tariffs[code] > charged THEN tariffs[code] - charged ELSE 0
           IN  /\ \/ 100 * (charged - tariffs[code]) > PRICE_VARIANCE_PERCENT * tariffs[code]
                  \/ 100 * (tariffs[code] - charged) > PRICE_VARIANCE_PERCENT * tariffs[code]
               /\ shortfall * quantity > MIN_LEAKAGE_AMOUNT

-----------------------------------------------------------------------------
(* get_anomaly_details: one record per anomalous row *)

\* C22: when detection labels the rows of the matrix, get_anomaly_details
\* returns exactly one record for every row labelled -1 and none for a row
\* labelled +1, every record carries the visit and the score of the row of
\* its index, and the records are in ascending order of anomaly_score.
C22_OneRecordPerAnomalousRow ==
    [][\A rows \in DetectInputs, predict_ok \in BOOLEAN :
         ( /\ ret'.op = "get_anomaly_details"
           /\ GetAnomalyDetailsCall(rows, predict_ok)
           /\ Len(rows) > 0
           /\ detect(TrainState, Len(rows), predict_ok) = Len(rows) )
         => LET out == ret'.anomalies
            IN  /\ \A i \in 1..Len(rows) :
                      Cardinality({ k \in 1..Len(out) : out[k].index = i - 1 })
                        = (IF rows[i].pred = -1 THEN 1 ELSE 0)
                /\ \A k \in 1..Len(out) :
                      /\ out[k].index \in 0..(Len(rows) - 1)
                      /\ out[k].visit_id = VisitDf(Len(rows))[out[k].index + 1]
                      /\ out[k].anomaly_score = rows[out[k].index + 1].score
                /\ \A k \in 1..(Len(out) - 1) :
                      out[k].anomaly_score <= out[k + 1].anomaly_score
      ]_vars

\* C22 witness: two anomalous rows were returned, the second row (the more
\* anomalous one) first.
C22_Witness ==
    /\ ret.op = "get_anomaly_details"
    /\ Len(ret.anomalies) = 2
    /\ ret.anomalies[1].index = 1
    /\ ret.anomalies[2].index = 0
    /\ ret.anomalies[1].anomaly_score < ret.anomalies[2].anomaly_score

-----------------------------------------------------------------------------
(* extract_features on frames of any shape *)

MaxVisitRows == 2

\* The columns of a visit frame: all that prepare_visit_data writes, the
\* frame without the last feature column, with the first feature columns
\* only, with no feature column, with no column at all.
ColumnSets ==
    { {"visit_id"} \cup Range(FEATURE_COLUMNS),
      {"visit_id"} \cup (Range(FEATURE_COLUMNS) \ {"items_per_visit"}),
      { FEATURE_COLUMNS[c] : c \in 1..3 },
      {"visit_id"},
      {} }

\* A row whose columns all hold the value v.
FrameRow(columns, v) == [col \in columns |-> v]

VisitFrames ==
    UNION { { [i \in 1..n |-> FrameRow(columns, values[i])] :
                values \in [1..n -> 0..3] } :
            n \in 0..MaxVisitRows, columns \in ColumnSets }

InitExtractFeatures ==
    /\ pc = "call"
    /\ args \in VisitFrames
    /\ retval = <<>>
    /\ IdleTrain
    /\ IdleCombine
    /\ IdlePriority
    /\ IdleAlerts

ExtractFeatures ==
    /\ pc = "call"
    /\ pc' = "done"
    /\ retval' = extract_features(args)
    /\ UNCHANGED <<args, combineVars, prioVars, alertVars, trainVars>>

SpecExtractFeatures == InitExtractFeatures /\ [][ExtractFeatures]_vars

\* C23 as stated: for every frame, the empty one included, what
\* extract_features returns has a second dimension, of the number of
\* canonical feature columns.
C23_AlwaysCanonicalColumns ==
    pc = "done" =>
        /\ Len(shape(retval)) = 2
        /\ shape(retval)[Len(shape(retval))] = Len(FEATURE_COLUMNS)

\* C23 amended: for every frame that is not empty, whichever canonical columns
\* it lacks, extract_features returns a matrix of one row per record and one
\* column per canonical feature column, a lacking column being 0; for an
\* empty frame it returns the empty one-dimensional array, which has no
\* column count.
C23_CanonicalColumnsUnlessEmpty ==
    pc = "done" =>
        IF args = <<>> \/ (\A i \in 1..Len(args) : DOMAIN args[i] = {})
        THEN shape(retval) = <<0>>
        ELSE /\ shape(retval) = <<Len(args), Len(FEATURE_COLUMNS)>>
             /\ \A i \in 1..Len(args) :
                   /\ Len(retval[i]) = Len(FEATURE_COLUMNS)
                   /\ \A c \in 1..Len(FEATURE_COLUMNS) :
                         retval[i][c] = (IF FEATURE_COLUMNS[c] \in DOMAIN args[i]
                                         THEN args[i][FEATURE_COLUMNS[c]] ELSE 0)

\* C23 witness: a frame of two records with no feature column has given a
\* matrix of two rows of ten zeros.
C23_Witness ==
    /\ pc = "done"
    /\ Len(args) = 2
    /\ DOMAIN args[1] = {"visit_id"}
    /\ shape(retval) = <<2, 10>>
    /\ \A c \in 1..10 : retval[1][c] = 0 /\ retval[2][c] = 0

\* The empty frame has given an array of shape (0,).
C23_EmptyGivesNoColumns ==
    /\ pc = "done"
    /\ args = <<>>
    /\ shape(retval) = <<0>>

-----------------------------------------------------------------------------
(* Training runs whose post-fit validation fails or finds an unexpected      *)
(* anomaly rate                                                              *)

\* Runs that reach the fit: the fit succeeds or raises, the prediction of
\* the validation raises or labels none, a tenth or all of the rows -1, and
\* the history file and the summary of the result can be written or not.
PostValidationEnvs ==
    { [DefaultEnv EXCEPT !.fit = f, !.predict_ok = p, !.anomalies = a,
                         !.history_ok = h, !.summary_ok = u] :
        f \in FitOutcomes, p \in BOOLEAN,
        a \in {0, DefaultEnv.anomalies, DefaultEnv.rows}, h \in BOOLEAN, u \in BOOLEAN }

PostValidationCall(force_retrain, env) ==
    /\ TrainCall(force_retrain, env)
    /\ UNCHANGED <<combineVars, prioVars, alertVars, callVars, pc>>

PostValidationRun ==
    \E force_retrain \in BOOLEAN, env \in PostValidationEnvs :
        PostValidationCall(force_retrain, env)

SpecPostValidation == InitTrain /\ [][PostValidationRun]_vars

-----------------------------------------------------------------------------
(* A fit that fails on a trained detector *)

\* C26: when AnomalyDetector.train fails while fitting a detector that is
\* trained, the detector is left as it was: its model is still the model
\* fitted before, and a following detect on a matrix that is not empty
\* returns one label and one score per row.
C26_FailedFitKeepsModel ==
    [][\A rows \in DetectorTrainRows, params \in DetectorTrainParams, save_ok \in BOOLEAN :
         ( /\ ret'.op = "detector_train"
           /\ is_trained
           /\ model # None
           /\ model[1].fitted
           /\ rows > 0
           /\ DetectorTrainCall(rows, params, "fit raises", save_ok) )
         => /\ model' = model
            /\ is_trained'
            /\ \A n \in 1..MaxRows :
                  detect([model |-> model', is_trained |-> is_trained'], n, TRUE) = n
      ]_vars

\* What the code does: after a fit that raised on a trained detector, the
\* detector is still marked trained, its model is the new estimator that was
\* never fitted, and the model file still holds the model fitted before.
C26_UnfittedModelAfterFailedFit ==
    /\ ret.op = "detector_train"
    /\ ~ret.success
    /\ ret.error = "fit"
    /\ is_trained
    /\ model # None
    /\ ~model[1].fitted
    /\ detect(TrainState, 1, TRUE) = 0
    /\ model_file # None
    /\ model_file[1].model[1].fitted

-----------------------------------------------------------------------------
(* Alerts per (visit, anomaly type) over repeated detection runs *)

\* The (visit, anomaly type) key of a stored alert.
AlertKey(alert) == <<alert.visit, alert.anomalyType>>

\* C27 as stated: after any sequence of detection runs over the same source
\* data the alert store holds at most one alert per (visit, anomaly type).
C27_OneAlertPerKeyAcrossRuns ==
    \A a, b \in DOMAIN ai_anomalies :
        a # b => AlertKey(ai_anomalies[a]) # AlertKey(ai_anomalies[b])

\* C27, amended: deduplication holds within a run.  The alerts one detection
\* run creates have pairwise different (visit, anomaly type) keys, and the
\* run looks at no stored alert: it leaves those stored as they are and, when
\* alerts are to be created and the inserts succeed, creates one alert for
\* every issue of its merged list, whether or not its key is stored already.
C27_OneAlertPerKeyWithinRun ==
    [][\A req \in DetectRequests, out \in RunOutcomes :
         (response'.op = "detect_anomalies"
            /\ response'.code = 200
            /\ req.include_rules = response'.scan_parameters.include_rules
            /\ req.include_ml = response'.scan_parameters.include_ml
            /\ DetectionRunCall(req, out)) =>
           LET created == DOMAIN ai_anomalies' \ DOMAIN ai_anomalies
           IN  /\ \A a, b \in created :
                     a # b => AlertKey(ai_anomalies'[a]) # AlertKey(ai_anomalies'[b])
               /\ \A a \in DOMAIN ai_anomalies :
                     a \in DOMAIN ai_anomalies' /\ ai_anomalies'[a] = ai_anomalies[a]
               /\ Cardinality(created) = response'.alerts_created
               /\ response'.alerts_created
                    = (IF req.create_alerts /\ out.insert_ok
                       THEN response'.total_anomalies ELSE 0)]_vars

\* C27 witness: two runs over the same data have each created an alert of
\* the same visit and type, and the store holds both.
C27_Witness ==
    /\ response.op = "detect_anomalies"
    /\ response.code = 200
    /\ response.alerts_created > 0
    /\ \E a, b \in DOMAIN ai_anomalies :
          /\ a # b
          /\ AlertKey(ai_anomalies[a]) = AlertKey(ai_anomalies[b])
          /\ ai_anomalies[a].visit # None

-----------------------------------------------------------------------------
(* A forced training run that stops before the fit *)

\* C28: a forced run of ModelTrainer.train that finds no training data
\* (stopping at Fetching) or fewer samples than the minimum (stopping at
\* Validating) fails and leaves the detector's model, trained flag and
\* normalization parameters, the model file, the training history and the
\* history file as they were, so that detect answers after it as before.
C28_EarlyFailureChangesNothing ==
    [][\A env \in { [DefaultEnv EXCEPT !.rows = rows] :
                        rows \in { n \in SampleCounts : n < MIN_SAMPLES_FOR_TRAINING } } :
         ( /\ ret'.op = "train"
           /\ env \in TrainEnvs
           /\ TrainCall(TRUE, env) )
         => /\ ~ret'.success
            /\ log'[Len(log')] = (IF env.rows = 0 THEN "Fetching" ELSE "Validating")
            /\ model' = model
            /\ is_trained' = is_trained
            /\ normalization_params' = normalization_params
            /\ model_file' = model_file
            /\ training_history' = training_history
            /\ history_file' = history_file
            /\ \A n \in 0..MaxRows, predict_ok \in BOOLEAN :
                  detect([model |-> model', is_trained |-> is_trained'], n, predict_ok)
                    = detect(TrainState, n, predict_ok)
      ]_vars

\* C28 witness: a detector trained by an earlier run, after a forced run that
\* stopped at Validating: the model is the fitted one of the earlier run and
\* detect still labels the rows.
C28_Witness ==
    /\ ret.op = "train"
    /\ ~ret.success
    /\ ret.error = "Insufficient training data"
    /\ log = <<"Fetching", "Validating">>
    /\ is_trained
    /\ model = Some([id |-> 1, fitted |-> TRUE])
    /\ model_file # None
    /\ Len(training_history) = 1
    /\ detect(TrainState, MaxRows, TRUE) = MaxRows

-----------------------------------------------------------------------------
(* The merge keeps the earliest issue of every key *)

\* The keys of the issues of a list.
KeysOf(list) == { KeyOf(list[i]) : i \in 1..Len(list) }

\* The earliest issue of the list that has the key.
FirstWithKey(list, key) ==
    list[CHOOSE i \in 1..Len(list) :
           /\ KeyOf(list[i]) = key
           /\ \A j \in 1..(i - 1) : KeyOf(list[j]) # key]

\* C29: of the issues that share a (visit_id, type) key, combine_anomalies
\* keeps exactly the earliest: the earliest of the ML list when an ML issue
\* has the key, and the earliest of the rule list otherwise; the number of
\* issues it returns is the number of distinct keys over both lists.
C29_KeepsEarliestOfEachKey ==
    pc = "done" =>
      /\ Len(combined) = Cardinality(KeysOf(ml_anomalies) \cup KeysOf(rule_anomalies))
      /\ \A key \in KeysOf(ml_anomalies) \cup KeysOf(rule_anomalies) :
            \E i \in 1..Len(combined) :
               /\ combined[i] = (IF key \in KeysOf(ml_anomalies)
                                 THEN SetKey(FirstWithKey(ml_anomalies, key), "source", "ml")
                                 ELSE SetKey(FirstWithKey(rule_anomalies, key),
                                             "source", "rules"))
               /\ \A j \in 1..Len(combined) : KeyOf(combined[j]) = key => j = i

\* C29 witness: two ML issues of one key that differ and a rule issue of the
\* same key have been merged into the first ML issue alone.
C29_Witness ==
    /\ pc = "done"
    /\ Len(ml_anomalies) = 2
    /\ Len(rule_anomalies) = 1
    /\ KeyOf(ml_anomalies[1]) = KeyOf(ml_anomalies[2])
    /\ KeyOf(ml_anomalies[1]) = KeyOf(rule_anomalies[1])
    /\ ml_anomalies[1] # ml_anomalies[2]
    /\ ml_anomalies[1] # rule_anomalies[1]
    /\ combined = << SetKey(ml_anomalies[1], "source", "ml") >>

-----------------------------------------------------------------------------
(* update_alert_status on a store it is handed.  args holds the store   *)
(* before the call and the arguments.                                    *)

\* Stores of no alert, of one and of two alerts, as create_alert writes them.
StoredAlerts ==
    LET one == create_alert(EmptyDict,
                            [visit_id |-> "v1", patient_id |-> "p1",
                             type |-> "unusual-pattern", anomaly_score |-> -1,
                             source |-> "ml"], 0, TRUE).store
        two == create_alert(one,
                            [visit_id |-> "v2", patient_id |-> "p1",
                             type |-> "price-mismatch", leakage_amount |-> 500,
                             severity |-> "medium", source |-> "rules"], 0, TRUE).store
    IN  {EmptyDict, one, two}

UpdateStatusInputs ==
    [store : StoredAlerts, alert_id : AlertIdInputs, status : valid_statuses,
     reviewed_by : ReviewerInputs, resolution_notes : NotesInputs, db_ok : BOOLEAN]

InitUpdateStatus ==
    /\ pc = "call"
    /\ args \in UpdateStatusInputs
    /\ retval = <<>>
    /\ ai_anomalies = args.store
    /\ now = MaxTime
    /\ response = [op |-> "none"]
    /\ IdleTrain
    /\ IdleCombine
    /\ IdlePriority

UpdateAlertStatus ==
    /\ pc = "call"
    /\ pc' = "done"
    /\ LET r == update_alert_status(ai_anomalies, args.alert_id, args.status,
                                    args.reviewed_by, args.resolution_notes, now, args.db_ok)
       IN  /\ ai_anomalies' = r.store
           /\ retval' = [ret |-> r.ret]
    /\ UNCHANGED <<args, now, response, combineVars, prioVars, trainVars>>

SpecUpdateStatus == InitUpdateStatus /\ [][UpdateAlertStatus]_vars

\* C30: update_alert_status with an id that matches no stored alert, or that
\* is no ObjectId, returns False and leaves the store as it was: every alert
\* unchanged and no alert added.
C30_UnknownIdChangesNothing ==
    (pc = "done" /\ args.alert_id \notin DOMAIN args.store) =>
        /\ retval.ret = FALSE
        /\ DOMAIN ai_anomalies = DOMAIN args.store
        /\ \A id \in DOMAIN args.store : ai_anomalies[id] = args.store[id]

\* C30 witness: the call has named a well-formed id that no alert has, on a
\* store of one alert and a database that answers: it has returned False, and
\* the store holds that alert alone, as it was.
C30_Witness ==
    /\ pc = "done"
    /\ DOMAIN args.store = {AlertId(1)}
    /\ args.alert_id = AlertId(2)
    /\ args.db_ok
    /\ retval.ret = FALSE
    /\ ai_anomalies = args.store

-----------------------------------------------------------------------------
(* Two requests POST /ml/revenue/train with force = true, served by two     *)
(* threads on the one ModelTrainer and the one AnomalyDetector of the       *)
(* process.  No statement of train or save_model takes a lock, so the       *)
(* threads interleave between the statements that read or write the         *)
(* detector's attributes.  Here model is the estimator self.model refers    *)
(* to (None or Some(e)); fits[e] is the state of estimator e: None while    *)
(* it is not fitted, Some(d) once it is fitted on the matrix of run d;      *)
(* estimator 0 and run 0 are those of an earlier process.  pc[t] is the     *)
(* statement thread t is at, args[t] what save_model has read in thread t,  *)
(* ret[t] what train has returned in thread t, and log the threads in the   *)
(* order in which they wrote the model file.                                *)

Threads == {1, 2}

\* The normalization parameters computed from the matrix of run d.
params_of(d) == [mean_std_of |-> d]

\* The estimator as joblib.dump pickles it.
pickled(e) == [estimator |-> e, fitted_on |-> fits[e]]

InitConcurrentTrain ==
    /\ pc = [t \in Threads |-> "start"]
    /\ args = [t \in Threads |-> EmptyDict]
    /\ ret = [t \in Threads |-> [op |-> "none"]]
    /\ retval = <<>>
    /\ log = <<>>
    /\ training_history = <<>>
    /\ history_file = None
    /\ \E trained \in BOOLEAN :
         /\ model = IF trained THEN Some(0) ELSE None
         /\ is_trained = trained
         /\ normalization_params = IF trained THEN params_of(0) ELSE EmptyDict
         /\ fits = [e \in {0} \cup Threads |-> IF e = 0 /\ trained THEN Some(0) ELSE None]
         /\ model_file = IF trained
                         THEN Some([model |-> [estimator |-> 0, fitted_on |-> Some(0)],
                                    normalization_params |-> params_of(0)])
                         ELSE None
    /\ IdleCombine
    /\ IdlePriority
    /\ IdleAlerts

\* Thread t goes from statement `from` to statement `to`.
Goto(t, from, to) ==
    /\ pc[t] = from
    /\ pc' = [pc EXCEPT ![t] = to]

\* ModelTrainer.train up to the call of AnomalyDetector.train: force_retrain
\* passes the early return; the matrix and its normalization parameters are
\* local to the thread.
Prepare(t) ==
    /\ Goto(t, "start", "create")
    /\ UNCHANGED <<model, is_trained, normalization_params, model_file, training_history,
                   history_file, fits, log, ret, args>>

\* self.model = IsolationForest(...)
CreateEstimator(t) ==
    /\ Goto(t, "create", "fit")
    /\ model' = Some(t)
    /\ UNCHANGED <<is_trained, normalization_params, model_file, training_history,
                   history_file, fits, log, ret, args>>

\* self.model.fit(features): the estimator self.model refers to at the call
\* is fitted on the matrix of this thread.
Fit(t) ==
    /\ Goto(t, "fit", "params")
    /\ fits' = [fits EXCEPT ![model[1]] = Some(t)]
    /\ UNCHANGED <<model, is_trained, normalization_params, model_file, training_history,
                   history_file, log, ret, args>>

\* self.normalization_params = normalization_params
StoreParams(t) ==
    /\ Goto(t, "params", "trained")
    /\ normalization_params' = params_of(t)
    /\ UNCHANGED <<model, is_trained, model_file, training_history,
                   history_file, fits, log, ret, args>>

\* self.is_trained = True
MarkTrained(t) ==
    /\ Goto(t, "trained", "score")
    /\ is_trained' = TRUE
    /\ UNCHANGED <<model, normalization_params, model_file, training_history,
                   history_file, fits, log, ret, args>>

\* self.model.score_samples(features) and self.model.predict(features): on
\* an estimator that is not fitted they raise, and train returns the failure.
Score(t) ==
    /\ pc[t] = "score"
    /\ IF fits[model[1]] = None
       THEN /\ pc' = [pc EXCEPT ![t] = "done"]
            /\ ret' = [ret EXCEPT ![t] = [op |-> "train", success |-> FALSE,
                                          error |-> "score_samples"]]
       ELSE /\ pc' = [pc EXCEPT ![t] = "save_model"]
            /\ ret' = ret
    /\ UNCHANGED <<model, is_trained, normalization_params, model_file, training_history,
                   history_file, fits, log, args>>

\* save_model: 'model': self.model
ReadModel(t) ==
    /\ Goto(t, "save_model", "save_params")
    /\ args' = [args EXCEPT ![t] = [model |-> model[1]]]
    /\ UNCHANGED <<model, is_trained, normalization_params, model_file, training_history,
                   history_file, fits, log, ret>>

\* save_model: 'normalization_params': self.normalization_params
ReadParams(t) ==
    /\ Goto(t, "save_params", "dump")
    /\ args' = [args EXCEPT ![t] = [model |-> args[t].model,
                                    normalization_params |-> normalization_params]]
    /\ UNCHANGED <<model, is_trained, normalization_params, model_file, training_history,
                   history_file, fits, log, ret>>

\* joblib.dump(save_data, model_path): the file is taken to be written in one
\* piece.
Dump(t) ==
    /\ Goto(t, "dump", "record")
    /\ model_file' = Some([model |-> pickled(args[t].model),
                           normalization_params |-> args[t].normalization_params])
    /\ log' = Append(log, t)
    /\ UNCHANGED <<model, is_trained, normalization_params, training_history,
                   history_file, fits, ret, args>>

\* ModelTrainer.train after the detector has returned its metrics: the
\* record of the run is appended to the history, the history is saved and
\* the success is returned.
Record(t) ==
    /\ Goto(t, "record", "done")
    /\ training_history' = Append(training_history, [timestamp |-> t])
    /\ history_file' = Some(LastN(training_history', HISTORY_KEPT))
    /\ ret' = [ret EXCEPT ![t] = [op |-> "train", success |-> TRUE, retrained |-> TRUE]]
    /\ UNCHANGED <<model, is_trained, normalization_params, model_file, fits, log, args>>

NextConcurrentTrain ==
    \/ (\E t \in Threads : Prepare(t)) /\ UNCHANGED <<combineVars, prioVars, alertVars, retval>>
    \/ (\E t \in Threads : CreateEstimator(t)) /\ UNCHANGED <<combineVars, prioVars, alertVars, retval>>
    \/ (\E t \in Threads : Fit(t)) /\ UNCHANGED <<combineVars, prioVars, alertVars, retval>>
    \/ (\E t \in Threads : StoreParams(t)) /\ UNCHANGED <<combineVars, prioVars, alertVars, retval>>
    \/ (\E t \in Threads : MarkTrained(t)) /\ UNCHANGED <<combineVars, prioVars, alertVars, retval>>
    \/ (\E t \in Threads : Score(t)) /\ UNCHANGED <<combineVars, prioVars, alertVars, retval>>
    \/ (\E t \in Threads : ReadModel(t)) /\ UNCHANGED <<combineVars, prioVars, alertVars, retval>>
    \/ (\E t \in Threads : ReadParams(t)) /\ UNCHANGED <<combineVars, prioVars, alertVars, retval>>
    \/ (\E t \in Threads : Dump(t)) /\ UNCHANGED <<combineVars, prioVars, alertVars, retval>>
    \/ (\E t \in Threads : Record(t)) /\ UNCHANGED <<combineVars, prioVars, alertVars, retval>>

SpecConcurrentTrain == InitConcurrentTrain /\ [][NextConcurrentTrain]_vars

\* Both invocations have returned.
BothReturned == \A t \in Threads : pc[t] = "done"

\* C21: when two concurrent invocations of train(force=True) have returned,
\* both have run to completion, and the model file holds the complete
\* artifact of the invocation that wrote it last: the estimator fitted on
\* that invocation's matrix with that invocation's normalization parameters,
\* never the model of one with the parameters of the other.
C21_LastWriterWinsWhole ==
    BothReturned =>
        /\ \A t \in Threads : ret[t].success
        /\ log # <<>>
        /\ model_file = Some([model |-> [estimator |-> model_file[1].model.estimator,
                                         fitted_on |-> Some(log[Len(log)])],
                              normalization_params |-> params_of(log[Len(log)])])

\* What the code allows: both invocations have returned success, thread 1
\* wrote the file last, and the file holds the estimator of thread 2, fitted
\* on the matrix of thread 2, with the normalization parameters of thread 1.
C21_MixedArtifact ==
    /\ BothReturned
    /\ \A t \in Threads : ret[t].success
    /\ log[Len(log)] = 1
    /\ model_file[1].model = [estimator |-> 2, fitted_on |-> Some(2)]
    /\ model_file[1].normalization_params = params_of(1)

\* What the code allows as well: an invocation has failed, because the
\* other one had replaced the estimator by a new one that was not fitted yet.
C21_InvocationFailed ==
    \E t \in Threads : pc[t] = "done" /\ ~ret[t].success

====
